---- MODULE Spec2Model ----
(***************************************************************************)
(* Model of backend/server.py: the token/scope access gate, the per-route  *)
(* rate limiter, registration and the user directory.                      *)
(*                                                                         *)
(* Every request is a coroutine: it runs without interruption up to its    *)
(* next "await" on the store, so one action of the model is one such       *)
(* stretch of code, and requests of different slots interleave at the      *)
(* awaits.                                                                 *)
(***************************************************************************)
EXTENDS Integers, Sequences, FiniteSets, TLC

VARIABLES
    users,      \* db.users: user id -> stored record
    nextUid,    \* the next fresh id uuid.uuid4() hands out
    products,   \* db.products: product id -> stored record
    nextPid,    \* the next fresh product id
    storage,    \* limiter storage: key -> [count, expiry]
    now,        \* the clock, in ticks
    reqs,       \* the requests in flight, one per slot
    sent,       \* history: requests received per (client, route) in a window
    nreq        \* history: number of requests received so far

vars == <<users, nextUid, products, nextPid, storage, now, reqs, sent, nreq>>

----------------------------------------------------------------------------
(* Bounds of the model *)

MaxUsers == 3
MaxProducts == 2
MaxRegRequests == 4
MaxLimRequests == 7
MaxQuotaRequests == 7
MaxProdRequests == 3
MaxValRequests == 3
MaxAuthRequests == 4
MaxShareRequests == 7
MaxStaleRequests == 4
MaxDelRequests == 4
TicksPerSec == 2

(* Program constants *)

ACCESS_TOKEN_EXPIRE_MINUTES == 30
SECRET_KEY == "SECRET_KEY"
WindowSecs == 60
MinPassword == 6
MinUsername == 3
MinName == 3

Slots == {1, 2}
Clients == {"10.0.0.1", "10.0.0.2"}

NoneRec == [none |-> TRUE]
Idle == [pc |-> "idle"]

----------------------------------------------------------------------------
(* Rate limiter: Limiter(key_func=get_remote_address) with the default     *)
(* fixed-window strategy over in-memory storage.                           *)

WindowTicks == WindowSecs * TicksPerSec

\* the quota of @limiter.limit("N/minute") on each route; 0: no limit
RouteLimit(route) ==
    CASE route = "register"       -> 5
      [] route = "login"          -> 10
      [] route = "root"           -> 100
      [] route = "health"         -> 0
      [] route = "me"             -> 50
      [] route = "get_products"   -> 30
      [] route = "get_product"    -> 30
      [] route = "create_product" -> 10
      [] route = "update_product" -> 10
      [] route = "delete_product" -> 5
      [] route = "get_all_users"  -> 20
      [] route = "delete_user"    -> 5
      [] route = "elevate"        -> 5

\* the URL path of a request: the limiter's scope
RoutePath(route, arg) ==
    CASE route = "register"       -> <<"/api/auth/register">>
      [] route = "login"          -> <<"/api/auth/login">>
      [] route = "root"           -> <<"/api/">>
      [] route = "health"         -> <<"/api/health">>
      [] route = "me"             -> <<"/api/me">>
      [] route = "get_products"   -> <<"/api/products">>
      [] route = "create_product" -> <<"/api/products">>
      [] route = "get_product"    -> <<"/api/products/", arg>>
      [] route = "update_product" -> <<"/api/products/", arg>>
      [] route = "delete_product" -> <<"/api/products/", arg>>
      [] route = "get_all_users"  -> <<"/api/admin/users">>
      [] route = "delete_user"    -> <<"/api/admin/users/", arg>>
      [] route = "elevate"        -> <<"/api/admin/elevate/", arg>>

\* mutant: one counter per path, whoever the client is
LimitKey_AnyClient(client, route, arg) == <<"*", RoutePath(route, arg), RouteLimit(route)>>

\* the storage key of one limit: client address, scope and the limit itself
LimitKey(client, route, arg) == <<client, RoutePath(route, arg), RouteLimit(route)>>

NoEntry == [count |-> 0, expiry |-> 0]

Entry(st, key) == IF key \in DOMAIN st THEN st[key] ELSE NoEntry

\* mutant: an entry is kept after its expiry
Live_NeverExpires(st, key, t) == Entry(st, key)

\* storage.get: an entry whose expiry has been reached is dropped
Live(st, key, t) ==
    LET e == Entry(st, key) IN
    IF e.count > 0 /\ e.expiry <= t THEN NoEntry ELSE e

\* FixedWindowRateLimiter.hit: count the request, open the window on the
\* first count, and admit while the count is within the quota
Hit(st, key, t) ==
    LET e == Live(st, key, t)
        n == e.count + 1
        e2 == [count |-> n, expiry |-> IF n = 1 THEN t + WindowTicks ELSE e.expiry]
    IN  [storage |-> [k \in DOMAIN st \cup {key} |-> IF k = key THEN e2 ELSE st[k]],
         ok |-> n <= key[3]]

\* the decorator's check: routes without a limit are never counted
CheckLimit(st, client, route, arg, t) ==
    IF RouteLimit(route) = 0 THEN [storage |-> st, ok |-> TRUE]
    ELSE Hit(st, LimitKey(client, route, arg), t)

\* history: the n-th request of this client to this route in the window that
\* its first request opened
Arrival(client, route) == Hit(sent, <<client, route, RouteLimit(route)>>, now)

Nth(client, route) == Arrival(client, route).storage[<<client, route, RouteLimit(route)>>].count

----------------------------------------------------------------------------
(* Registration *)

RoleAbsent == "<absent>"
RoleNull == "<null>"

\* a field of sequence type that the request body does not carry
Absent == <<"<absent>">>

\* a text field that the request body does not carry
NoText == "<absent>"

EmailA == <<"a", "@", "x", ".", "i", "o">>
EmailB == <<"b", "@", "x", ".", "i", "o">>
EmailC == <<"c", "@", "x", ".", "i", "o">>

FullScopes == <<"read", "write", "delete", "admin">>

\* EmailStr: one "@" with a local part before it and, after it, a domain
\* with a dot inside
ValidEmail(e) ==
    LET ats == {i \in 1..Len(e) : e[i] = "@"} IN
    /\ Cardinality(ats) = 1
    /\ \E a \in ats :
          /\ a > 1
          /\ \E d \in (a + 2)..(Len(e) - 1) : e[d] = "."

\* mutant: the length of the password is not checked
ValidRegister_AnyPassword(body) ==
    /\ body.email # Absent /\ body.username # Absent /\ body.password # Absent
    /\ ValidEmail(body.email)
    /\ Len(body.username) >= MinUsername

\* UserRegister: the required fields, EmailStr and the validators of
\* username and password
ValidRegister(body) ==
    /\ body.email # Absent /\ body.username # Absent /\ body.password # Absent
    /\ ValidEmail(body.email)
    /\ Len(body.password) >= MinPassword
    /\ Len(body.username) >= MinUsername

\* pwd_context.hash: bcrypt under a salt drawn for this call
HashPassword(password, salt) ==
    [scheme |-> "bcrypt", salt |-> salt, digest |-> <<salt, password>>]

\* mutant: any password verifies
VerifyPassword_Always(plain_password, hashed_password) == TRUE

\* pwd_context.verify: the hash of the plain password under the salt of the
\* stored hash equals the stored hash
VerifyPassword(plain_password, hashed_password) ==
    HashPassword(plain_password, hashed_password.salt) = hashed_password

\* UserRegister.role: Optional[str] = "user"
ParsedRole(body) == IF body.role = RoleAbsent THEN "user" ELSE body.role

\* mutant: the role is matched ignoring case and surrounding blanks
ScopesForRole_CaseFold(role) ==
    IF role \in {"admin", "Admin", "admin "} THEN FullScopes
    ELSE IF role \in {"user", "User", "user "} THEN <<"read", "write">>
    ELSE <<"read">>

\* register: "Set scopes based on role"
ScopesForRole(role) ==
    IF role = "admin" THEN FullScopes
    ELSE IF role = "user" THEN <<"read", "write">>
    ELSE <<"read">>

\* mutant: the lookup by email finds nothing
EmailIds_NoCheck(us, email) == {}

\* db.users.find_one({"email": email}): some record with that email or none
EmailIds(us, email) == {i \in DOMAIN us : us[i].email = email}

\* history: the entry the limiter's storage holds for this request's key at
\* its arrival, and whether that window is still open
Seen(client, route, arg) ==
    LET e == Entry(storage, LimitKey(client, route, arg)) IN
    [count |-> e.count, live |-> e.expiry > now]

Pending(route, client, arg, body, pc) ==
    [route |-> route, client |-> client, arg |-> arg, body |-> body, pc |-> pc,
     stage |-> "", nth |-> Nth(client, route), seen |-> Seen(client, route, arg),
     cred |-> NoneRec, user_id |-> 0, issued |-> 0,
     found |-> NoneRec, current_user |-> NoneRec, user |-> NoneRec,
     status |-> 0, out |-> NoneRec]

Done(q, status, out) == [q EXCEPT !.pc = "done", !.status = status, !.out = out]

\* POST /auth/register up to its first await: request validation, then the
\* limiter of the decorated function, then find_one is issued
Register(r, c, body) ==
    /\ reqs[r] = Idle
    /\ nreq' = nreq + 1
    /\ sent' = Arrival(c, "register").storage
    /\ LET q == Pending("register", c, 0, body, "reg_find")
           h == CheckLimit(storage, c, "register", 0, now)
       IN  IF ~ValidRegister(body)
           THEN /\ reqs' = [reqs EXCEPT ![r] = Done([q EXCEPT !.stage = "validate"], 422, NoneRec)]
                /\ UNCHANGED storage
           ELSE /\ storage' = h.storage
                /\ reqs' = [reqs EXCEPT ![r] =
                       IF h.ok THEN [q EXCEPT !.stage = "handler"]
                       ELSE Done([q EXCEPT !.stage = "limit"], 429, NoneRec)]
    /\ UNCHANGED <<users, nextUid, products, nextPid, now>>

\* find_one answers; duplicate email -> 400, else the User is built (its id
\* is drawn here) and insert_one is issued
RegisterFindOne(r) ==
    /\ reqs[r] # Idle
    /\ reqs[r].pc = "reg_find"
    /\ LET q == reqs[r]
           role == ParsedRole(q.body)
       IN  IF EmailIds(users, q.body.email) # {}
           THEN /\ reqs' = [reqs EXCEPT ![r] = Done(q, 400, NoneRec)]
                /\ UNCHANGED nextUid
           ELSE IF role = RoleNull
           THEN \* User(role=None) fails model validation: unhandled, 500
                /\ reqs' = [reqs EXCEPT ![r] = Done(q, 500, NoneRec)]
                /\ UNCHANGED nextUid
           ELSE /\ nextUid <= MaxUsers
                /\ nextUid' = nextUid + 1
                /\ reqs' = [reqs EXCEPT ![r] =
                       [q EXCEPT !.pc = "reg_insert",
                                 !.user = [id |-> nextUid,
                                           email |-> q.body.email,
                                           username |-> q.body.username,
                                           hashed_password |->
                                               HashPassword(q.body.password, nextUid),
                                           role |-> role,
                                           scopes |-> ScopesForRole(role)]]]
    /\ UNCHANGED <<users, products, nextPid, storage, now, sent, nreq>>

\* insert_one is applied by the store; 201 with the new id
RegisterInsertOne(r) ==
    /\ reqs[r] # Idle
    /\ reqs[r].pc = "reg_insert"
    /\ LET q == reqs[r]
           u == q.user
       IN  /\ users' = [i \in DOMAIN users \cup {u.id} |->
                           IF i = u.id
                           THEN [email |-> u.email, username |-> u.username,
                                 hashed_password |-> u.hashed_password,
                                 role |-> u.role, scopes |-> u.scopes]
                           ELSE users[i]]
           /\ reqs' = [reqs EXCEPT ![r] = Done(q, 201,
                            [message |-> "User created successfully", user_id |-> u.id])]
    /\ UNCHANGED <<nextUid, products, nextPid, storage, now, sent, nreq>>

\* the response has been sent; the slot serves the next request
Retire(r) ==
    /\ reqs[r] # Idle
    /\ reqs[r].pc = "done"
    /\ reqs' = [reqs EXCEPT ![r] = Idle]
    /\ UNCHANGED <<users, nextUid, products, nextPid, storage, now, sent, nreq>>

\* time passes
Tick(t) ==
    /\ t > now
    /\ now' = t
    /\ UNCHANGED <<users, nextUid, products, nextPid, storage, reqs, sent, nreq>>

----------------------------------------------------------------------------
(* Token codec: jwt.encode / jwt.decode with HS256 *)

NoSub == 0

\* a bearer token: the claims and the key that signed them; exp in seconds
\* the claims a signature covers
Payload(tok) == <<tok.sub, tok.role, tok.scopes, tok.exp>>

\* jwt.encode: the claims, the key that signed them and the payload the
\* signature was computed over
Token(sub, role, scopes, exp, key) ==
    [sub |-> sub, role |-> role, scopes |-> scopes, exp |-> exp, key |-> key,
     signed |-> <<sub, role, scopes, exp>>]

\* HS256 verification under the server's secret
Verifies(tok) == tok.key = SECRET_KEY /\ tok.signed = Payload(tok)

\* a credential that is not a JWT at all: nothing in it verifies
MalformedToken == Token(NoSub, "", << >>, 0, "")

\* mutant: a token is expired only after its expiry instant
Decode_ExpiryExclusive(tok, t) ==
    IF ~Verifies(tok) THEN "Could not validate credentials"
    ELSE IF tok.exp * TicksPerSec < t THEN "Token has expired"
    ELSE IF tok.sub = NoSub THEN "Could not validate credentials"
    ELSE "ok"

\* mutant: decoding without any verification
Decode_SkipVerify(tok, t) ==
    IF tok.sub = NoSub THEN "Could not validate credentials" ELSE "ok"

\* mutant: the key is checked but not what the signature covers
Decode_KeyOnly(tok, t) ==
    IF tok.key # SECRET_KEY THEN "Could not validate credentials"
    ELSE IF tok.exp * TicksPerSec <= t THEN "Token has expired"
    ELSE IF tok.sub = NoSub THEN "Could not validate credentials"
    ELSE "ok"

\* mutant: the signature is not verified
Decode_NoSignature(tok, t) ==
    IF tok.exp * TicksPerSec <= t THEN "Token has expired"
    ELSE IF tok.sub = NoSub THEN "Could not validate credentials"
    ELSE "ok"

\* mutant: a payload without "sub" is passed on to the directory lookup
Decode_AnySubject(tok, t) ==
    IF ~Verifies(tok) THEN "Could not validate credentials"
    ELSE IF tok.exp * TicksPerSec <= t THEN "Token has expired"
    ELSE "ok"

\* jwt.decode(token, SECRET_KEY, algorithms=[ALGORITHM]) and the "sub" check
\* of get_current_user: the signature first, then exp, then the subject
Decode(tok, t) ==
    IF ~Verifies(tok) THEN "Could not validate credentials"
    ELSE IF tok.exp * TicksPerSec <= t THEN "Token has expired"
    ELSE IF tok.sub = NoSub THEN "Could not validate credentials"
    ELSE "ok"

----------------------------------------------------------------------------
(* Access gate *)

InSeq(x, seq) == \E i \in 1..Len(seq) : seq[i] = x

\* mutant: any scope at all passes
RequireScope_AnyScope(required_scope, current_user) == Len(current_user.scopes) > 0

\* require_scope(required_scope): scope_checker
RequireScope(required_scope, current_user) == InSeq(required_scope, current_user.scopes)

\* mutant: the role is compared ignoring case and surrounding blanks
RequireRole_CaseFold(required_role, current_user) ==
    \/ current_user.role = required_role
    \/ required_role = "admin" /\ current_user.role \in {"Admin", "admin ", " admin", "ADMIN"}

\* require_role(required_role): role_checker
RequireRole(required_role, current_user) == current_user.role = required_role

\* db.users.find_one({"id": user_id}, {"_id": 0}): the record or none
FindOneUser(us, id) ==
    IF id \in DOMAIN us
    THEN [id |-> id, email |-> us[id].email, username |-> us[id].username,
          hashed_password |-> us[id].hashed_password,
          role |-> us[id].role, scopes |-> us[id].scopes]
    ELSE NoneRec

\* mutant: a subject the directory does not hold is trusted on its claims
ResolveUser_TrustClaims(doc, q) ==
    IF doc = NoneRec
    THEN [id |-> q.user_id, email |-> << >>, username |-> << >>, hashed_password |-> NoneRec,
          role |-> q.cred.role, scopes |-> q.cred.scopes]
    ELSE doc

\* mutant: role and scopes of the context object come from the token
ResolveUser_ClaimScopes(doc, q) ==
    IF doc = NoneRec THEN NoneRec
    ELSE [doc EXCEPT !.role = q.cred.role, !.scopes = q.cred.scopes]

\* mutant: the context object keeps only the scopes the token claims too
ResolveUser_TokenBound(doc, q) ==
    IF doc = NoneRec THEN NoneRec
    ELSE [doc EXCEPT !.scopes = SelectSeq(doc.scopes, LAMBDA sc : InSeq(sc, q.cred.scopes))]

\* get_current_user after the lookup: none -> 401, else User(**user), the
\* context object built from the record just loaded
ResolveUser(doc, q) == doc

\* mutant: the deletion of a product is open to writers
Requirement_DeleteByWriters(route) ==
    CASE route = "me"             -> [kind |-> "user", need |-> ""]
      [] route = "get_products"   -> [kind |-> "scope", need |-> "read"]
      [] route = "get_product"    -> [kind |-> "scope", need |-> "read"]
      [] route = "create_product" -> [kind |-> "scope", need |-> "write"]
      [] route = "update_product" -> [kind |-> "scope", need |-> "write"]
      [] route = "delete_product" -> [kind |-> "scope", need |-> "write"]
      [] route = "get_all_users"  -> [kind |-> "role", need |-> "admin"]
      [] route = "delete_user"    -> [kind |-> "role", need |-> "admin"]
      [] route = "elevate"        -> [kind |-> "scope", need |-> "admin"]

\* mutant: elevation is open to writers
Requirement_ElevateByWriters(route) ==
    CASE route = "me"             -> [kind |-> "user", need |-> ""]
      [] route = "get_products"   -> [kind |-> "scope", need |-> "read"]
      [] route = "get_product"    -> [kind |-> "scope", need |-> "read"]
      [] route = "create_product" -> [kind |-> "scope", need |-> "write"]
      [] route = "update_product" -> [kind |-> "scope", need |-> "write"]
      [] route = "delete_product" -> [kind |-> "scope", need |-> "delete"]
      [] route = "get_all_users"  -> [kind |-> "role", need |-> "admin"]
      [] route = "delete_user"    -> [kind |-> "role", need |-> "admin"]
      [] route = "elevate"        -> [kind |-> "scope", need |-> "write"]

\* the dependency each protected route declares
Requirement(route) ==
    CASE route = "me"             -> [kind |-> "user", need |-> ""]
      [] route = "get_products"   -> [kind |-> "scope", need |-> "read"]
      [] route = "get_product"    -> [kind |-> "scope", need |-> "read"]
      [] route = "create_product" -> [kind |-> "scope", need |-> "write"]
      [] route = "update_product" -> [kind |-> "scope", need |-> "write"]
      [] route = "delete_product" -> [kind |-> "scope", need |-> "delete"]
      [] route = "get_all_users"  -> [kind |-> "role", need |-> "admin"]
      [] route = "delete_user"    -> [kind |-> "role", need |-> "admin"]
      [] route = "elevate"        -> [kind |-> "scope", need |-> "admin"]

Allowed(route, current_user) ==
    LET req == Requirement(route) IN
    CASE req.kind = "scope" -> RequireScope(req.need, current_user)
      [] req.kind = "role"  -> RequireRole(req.need, current_user)
      [] req.kind = "user"  -> TRUE

\* the first await of each handler
FirstStep(route) ==
    CASE route = "get_products"   -> "find_products"
      [] route = "get_product"    -> "find_product"
      [] route = "create_product" -> "insert_product"
      [] route = "update_product" -> "update_find"
      [] route = "delete_product" -> "delete_product"
      [] route = "get_all_users"  -> "find_users"
      [] route = "delete_user"    -> "delete_user"
      [] route = "elevate"        -> "elevate_find"

\* mutant: the length of the name is not checked
ValidProduct_AnyName(body) ==
    /\ body.name # Absent /\ body.description # NoText

\* ProductCreate: the required fields and the validator of name
ValidProduct(body) ==
    /\ body.name # Absent /\ body.description # NoText
    /\ Len(body.name) >= MinName

\* Product: the validator of price
ValidPrice(price) == price >= 0

HasBody(route) == route \in {"create_product", "update_product"}

\* mutant: the creator is not recorded
NewProduct_NoCreator(id, body, current_user, t) ==
    [id |-> id, name |-> body.name, description |-> body.description,
     price |-> body.price, created_by |-> NoSub, created_at |-> t]

\* create_product: Product(name, description, price, created_by); id and
\* created_at are drawn by the default factories
NewProduct(id, body, current_user, t) ==
    [id |-> id, name |-> body.name, description |-> body.description,
     price |-> body.price, created_by |-> current_user.id, created_at |-> t]

\* mutant: the updating caller becomes the creator
UpdatedProduct_TakesCaller(id, body, existing, current_user) ==
    [id |-> id, name |-> body.name, description |-> body.description,
     price |-> body.price, created_by |-> current_user.id,
     created_at |-> existing.created_at]

\* update_product: Product(id=product_id, ..., created_by and created_at of
\* the existing record)
UpdatedProduct(id, body, existing, current_user) ==
    [id |-> id, name |-> body.name, description |-> body.description,
     price |-> body.price, created_by |-> existing.created_by,
     created_at |-> existing.created_at]

\* the record insert_one / update_one writes: model_dump() of the Product
ProductDict(p) ==
    [name |-> p.name, description |-> p.description, price |-> p.price,
     created_by |-> p.created_by, created_at |-> p.created_at]

\* mutant: the elevation sets the role only
Elevated_RoleOnly(u) == [u EXCEPT !.role = "admin"]

\* mutant: the elevation replaces the scopes by the admin scope alone
Elevated_AdminScopeOnly(u) == [u EXCEPT !.role = "admin", !.scopes = <<"admin">>]

\* mutant: the elevation sets the scopes only
Elevated_ScopesOnly(u) == [u EXCEPT !.scopes = FullScopes]

\* elevate_user_to_admin: {"$set": {"role": "admin", "scopes": [...]}}
Elevated(u) == [u EXCEPT !.role = "admin", !.scopes = FullScopes]

\* mutant: a missing credential is answered like an invalid one
Security_Unauthorized(cred) ==
    IF cred = NoneRec THEN [status |-> 401, detail |-> "Not authenticated"] ELSE NoneRec

\* security = HTTPBearer(): no Authorization header -> 403 "Not authenticated"
Security(cred) ==
    IF cred = NoneRec THEN [status |-> 403, detail |-> "Not authenticated"] ELSE NoneRec

\* A request to a protected route arrives: HTTPBearer extracts the
\* credential (none: 403), get_current_user decodes it (401) and issues the
\* directory lookup
Protected(r, route, c, cred, arg, body) ==
    /\ reqs[r] = Idle
    /\ nreq' = nreq + 1
    /\ sent' = Arrival(c, route).storage
    /\ LET q == [Pending(route, c, arg, body, "find_user") EXCEPT !.cred = cred]
       IN  reqs' = [reqs EXCEPT ![r] =
               IF Security(cred) # NoneRec
               THEN Done([q EXCEPT !.stage = "bearer"], Security(cred).status,
                         [detail |-> Security(cred).detail])
               ELSE IF Decode(cred, now) # "ok"
               THEN Done([q EXCEPT !.stage = "decode"], 401, [detail |-> Decode(cred, now)])
               ELSE [q EXCEPT !.stage = "decode", !.user_id = cred.sub]]
    /\ UNCHANGED <<users, nextUid, products, nextPid, storage, now>>

\* the directory answers find_one({"id": user_id}): no record -> 401; else
\* the scope or role dependency (403), the validation of the body (422), the
\* limiter of the decorated function (429), and the handler up to its first
\* await
FindUser(r) ==
    /\ reqs[r] # Idle
    /\ reqs[r].pc = "find_user"
    /\ LET doc == FindOneUser(users, reqs[r].user_id)
           q == [reqs[r] EXCEPT !.found = doc]
           cu == ResolveUser(doc, q)
           h == CheckLimit(storage, q.client, q.route, q.arg, now)
       IN  IF cu = NoneRec
           THEN /\ reqs' = [reqs EXCEPT ![r] =
                       Done([q EXCEPT !.stage = "lookup"], 401, [detail |-> "User not found"])]
                /\ UNCHANGED <<storage, nextPid>>
           ELSE IF ~Allowed(q.route, cu)
           THEN /\ reqs' = [reqs EXCEPT ![r] =
                       Done([q EXCEPT !.stage = "gate", !.current_user = cu], 403,
                            [detail |-> "Insufficient permissions"])]
                /\ UNCHANGED <<storage, nextPid>>
           ELSE IF HasBody(q.route) /\ ~ValidProduct(q.body)
           THEN /\ reqs' = [reqs EXCEPT ![r] =
                       Done([q EXCEPT !.stage = "validate", !.current_user = cu], 422, NoneRec)]
                /\ UNCHANGED <<storage, nextPid>>
           ELSE IF ~h.ok
           THEN /\ reqs' = [reqs EXCEPT ![r] =
                       Done([q EXCEPT !.stage = "limit", !.current_user = cu], 429, NoneRec)]
                /\ storage' = h.storage
                /\ UNCHANGED nextPid
           ELSE /\ storage' = h.storage
                /\ IF q.route = "me"
                   THEN /\ reqs' = [reqs EXCEPT ![r] =
                               Done([q EXCEPT !.stage = "handler", !.current_user = cu], 200,
                                    [id |-> cu.id, email |-> cu.email, username |-> cu.username,
                                     role |-> cu.role, scopes |-> cu.scopes])]
                        /\ UNCHANGED nextPid
                   ELSE IF q.route = "create_product" /\ ~ValidPrice(q.body.price)
                   THEN \* Product(...) fails model validation: unhandled, 500
                        /\ reqs' = [reqs EXCEPT ![r] =
                               Done([q EXCEPT !.stage = "handler", !.current_user = cu], 500, NoneRec)]
                        /\ UNCHANGED nextPid
                   ELSE IF q.route = "create_product"
                   THEN \* Product(...): the id is drawn at construction
                        /\ nextPid <= MaxProducts
                        /\ nextPid' = nextPid + 1
                        /\ reqs' = [reqs EXCEPT ![r] =
                               [q EXCEPT !.stage = "handler", !.current_user = cu,
                                         !.pc = FirstStep(q.route),
                                         !.user = NewProduct(nextPid, q.body, cu, now)]]
                   ELSE /\ reqs' = [reqs EXCEPT ![r] =
                               [q EXCEPT !.stage = "handler", !.current_user = cu,
                                         !.pc = FirstStep(q.route)]]
                        /\ UNCHANGED nextPid
    /\ UNCHANGED <<users, nextUid, products, now, sent, nreq>>

----------------------------------------------------------------------------
(* Handlers of the protected routes, one action per store call *)

HandlerFrame == <<nextUid, nextPid, storage, now, sent, nreq>>

IsDone(r, route) ==
    /\ reqs[r] # Idle
    /\ reqs[r].route = route
    /\ reqs[r].pc = "done"

AtStep(r, pc) == reqs[r] # Idle /\ reqs[r].pc = pc

\* get_products: db.products.find({}).to_list(100)
GetProducts(r) ==
    /\ AtStep(r, "find_products")
    /\ reqs' = [reqs EXCEPT ![r] = Done(reqs[r], 200, [ids |-> DOMAIN products])]
    /\ UNCHANGED <<users, products>>
    /\ UNCHANGED HandlerFrame

\* get_product: db.products.find_one({"id": product_id})
GetProduct(r) ==
    /\ AtStep(r, "find_product")
    /\ LET id == reqs[r].arg IN
       reqs' = [reqs EXCEPT ![r] =
           IF id \in DOMAIN products
           THEN Done(reqs[r], 200, [id |-> id] @@ products[id])
           ELSE Done(reqs[r], 404, [detail |-> "Product not found"])]
    /\ UNCHANGED <<users, products>>
    /\ UNCHANGED HandlerFrame

\* update_product: db.products.find_one, then the updated Product is built
UpdateFind(r) ==
    /\ AtStep(r, "update_find")
    /\ LET q == reqs[r]
           id == q.arg
       IN  reqs' = [reqs EXCEPT ![r] =
               IF id \notin DOMAIN products
               THEN Done(q, 404, [detail |-> "Product not found"])
               ELSE IF ~ValidPrice(q.body.price)
               THEN Done(q, 500, NoneRec)
               ELSE [q EXCEPT !.pc = "update_product",
                              !.user = UpdatedProduct(id, q.body, products[id], q.current_user)]]
    /\ UNCHANGED <<users, products>>
    /\ UNCHANGED HandlerFrame

\* update_product: db.products.update_one({"id": product_id}, {"$set": ...});
\* an update that matches no record changes nothing and is not an error
UpdateProduct(r) ==
    /\ AtStep(r, "update_product")
    /\ LET p == reqs[r].user IN
       /\ products' = [i \in DOMAIN products |->
                          IF i = p.id
                          THEN ProductDict(p)
                          ELSE products[i]]
       /\ reqs' = [reqs EXCEPT ![r] = Done(reqs[r], 200, p)]
    /\ UNCHANGED users
    /\ UNCHANGED HandlerFrame

\* create_product: db.products.insert_one
CreateProduct(r) ==
    /\ AtStep(r, "insert_product")
    /\ LET p == reqs[r].user IN
       /\ products' = [i \in DOMAIN products \cup {p.id} |->
                          IF i = p.id
                          THEN ProductDict(p)
                          ELSE products[i]]
       /\ reqs' = [reqs EXCEPT ![r] = Done(reqs[r], 201, p)]
    /\ UNCHANGED users
    /\ UNCHANGED HandlerFrame

\* delete_product: db.products.delete_one({"id": product_id})
DeleteProduct(r) ==
    /\ AtStep(r, "delete_product")
    /\ LET id == reqs[r].arg IN
       IF id \in DOMAIN products
       THEN /\ products' = [i \in DOMAIN products \ {id} |-> products[i]]
            /\ reqs' = [reqs EXCEPT ![r] = Done(reqs[r], 204, NoneRec)]
       ELSE /\ reqs' = [reqs EXCEPT ![r] = Done(reqs[r], 404, [detail |-> "Product not found"])]
            /\ UNCHANGED products
    /\ UNCHANGED users
    /\ UNCHANGED HandlerFrame

\* mutant: the listing returns the whole record
ListedUser_Whole(id, u) == [id |-> id] @@ u

\* the projection {"_id": 0, "hashed_password": 0} of a user record
ListedUser(id, u) ==
    [id |-> id, email |-> u.email, username |-> u.username,
     role |-> u.role, scopes |-> u.scopes]

\* get_all_users: db.users.find({}, {"_id": 0, "hashed_password": 0})
GetAllUsers(r) ==
    /\ AtStep(r, "find_users")
    /\ reqs' = [reqs EXCEPT ![r] =
           Done(reqs[r], 200, [users |-> {ListedUser(id, users[id]) : id \in DOMAIN users}])]
    /\ UNCHANGED <<users, products>>
    /\ UNCHANGED HandlerFrame

\* mutant: the deletion of a user takes the user's products along
DeleteUser_Cascade(r) ==
    /\ AtStep(r, "delete_user")
    /\ LET id == reqs[r].arg IN
       IF id \in DOMAIN users
       THEN /\ users' = [i \in DOMAIN users \ {id} |-> users[i]]
            /\ products' = [p \in {x \in DOMAIN products : products[x].created_by # id}
                               |-> products[p]]
            /\ reqs' = [reqs EXCEPT ![r] = Done(reqs[r], 204, NoneRec)]
       ELSE /\ reqs' = [reqs EXCEPT ![r] = Done(reqs[r], 404, [detail |-> "User not found"])]
            /\ UNCHANGED <<users, products>>
    /\ UNCHANGED HandlerFrame

\* delete_user: db.users.delete_one({"id": user_id})
DeleteUser(r) ==
    /\ AtStep(r, "delete_user")
    /\ LET id == reqs[r].arg IN
       IF id \in DOMAIN users
       THEN /\ users' = [i \in DOMAIN users \ {id} |-> users[i]]
            /\ reqs' = [reqs EXCEPT ![r] = Done(reqs[r], 204, NoneRec)]
       ELSE /\ reqs' = [reqs EXCEPT ![r] = Done(reqs[r], 404, [detail |-> "User not found"])]
            /\ UNCHANGED users
    /\ UNCHANGED products
    /\ UNCHANGED HandlerFrame

\* elevate_user_to_admin: db.users.find_one({"id": user_id})
ElevateFind(r) ==
    /\ AtStep(r, "elevate_find")
    /\ reqs' = [reqs EXCEPT ![r] =
           IF reqs[r].arg \in DOMAIN users
           THEN [reqs[r] EXCEPT !.pc = "elevate_update"]
           ELSE Done(reqs[r], 404, [detail |-> "User not found"])]
    /\ UNCHANGED <<users, products>>
    /\ UNCHANGED HandlerFrame

\* elevate_user_to_admin: db.users.update_one({"id": user_id}, {"$set": ...});
\* an update that matches no record changes nothing and is not an error
ElevateUpdate(r) ==
    /\ AtStep(r, "elevate_update")
    /\ LET id == reqs[r].arg IN
       users' = [i \in DOMAIN users |->
                    IF i = id
                    THEN Elevated(users[i])
                    ELSE users[i]]
    /\ reqs' = [reqs EXCEPT ![r] = Done(reqs[r], 200, [user_id |-> reqs[r].arg])]
    /\ UNCHANGED products
    /\ UNCHANGED HandlerFrame

----------------------------------------------------------------------------
(* Login and the public routes *)

\* UserLogin: the required fields and EmailStr
ValidLogin(body) ==
    /\ body.email # Absent /\ body.password # Absent
    /\ ValidEmail(body.email)

\* create_access_token(data, expires_delta): exp = now + expires_delta, which
\* jwt.encode writes as whole seconds
CreateAccessToken(data, expire_minutes, t) ==
    Token(data.sub, data.role, data.scopes,
          (t + expire_minutes * 60 * TicksPerSec) \div TicksPerSec, SECRET_KEY)

\* POST /auth/login up to its first await: request validation, then the
\* limiter of the decorated function, then find_one is issued
Login(r, c, body) ==
    /\ reqs[r] = Idle
    /\ nreq' = nreq + 1
    /\ sent' = Arrival(c, "login").storage
    /\ LET q == Pending("login", c, 0, body, "login_find")
           h == CheckLimit(storage, c, "login", 0, now)
       IN  IF ~ValidLogin(body)
           THEN /\ reqs' = [reqs EXCEPT ![r] = Done([q EXCEPT !.stage = "validate"], 422, NoneRec)]
                /\ UNCHANGED storage
           ELSE /\ storage' = h.storage
                /\ reqs' = [reqs EXCEPT ![r] =
                       IF h.ok THEN [q EXCEPT !.stage = "handler"]
                       ELSE Done([q EXCEPT !.stage = "limit"], 429, NoneRec)]
    /\ UNCHANGED <<users, nextUid, products, nextPid, now>>

\* find_one({"email": ...}) answers with one of the records of that email or
\* none; then the password is verified and the token is issued
LoginFindOne(r) ==
    /\ AtStep(r, "login_find")
    /\ LET q == reqs[r]
           ids == EmailIds(users, q.body.email)
           refused == [detail |-> "Incorrect email or password"]
       IN  IF ids = {}
           THEN reqs' = [reqs EXCEPT ![r] = Done(q, 401, refused)]
           ELSE \E i \in ids :
                  LET user == FindOneUser(users, i) IN
                  IF ~VerifyPassword(q.body.password, user.hashed_password)
                  THEN reqs' = [reqs EXCEPT ![r] = Done([q EXCEPT !.found = user], 401, refused)]
                  ELSE reqs' = [reqs EXCEPT ![r] =
                          Done([q EXCEPT !.found = user, !.issued = now], 200,
                               [access_token |->
                                    CreateAccessToken([sub |-> user.id, role |-> user.role,
                                                       scopes |-> user.scopes],
                                                      ACCESS_TOKEN_EXPIRE_MINUTES, now),
                                token_type |-> "bearer",
                                expires_in |-> ACCESS_TOKEN_EXPIRE_MINUTES * 60,
                                user_id |-> user.id,
                                role |-> user.role,
                                scopes |-> user.scopes])]
    /\ UNCHANGED <<users, products>>
    /\ UNCHANGED HandlerFrame

\* GET / (100/minute) and GET /health (no limit)
Public(r, route, c) ==
    /\ reqs[r] = Idle
    /\ route \in {"root", "health"}
    /\ nreq' = nreq + 1
    /\ sent' = IF RouteLimit(route) = 0 THEN sent ELSE Arrival(c, route).storage
    /\ LET q == [Pending(route, c, 0, NoneRec, "done") EXCEPT
                    !.nth = IF RouteLimit(route) = 0 THEN 0 ELSE Nth(c, route)]
           h == CheckLimit(storage, c, route, 0, now)
       IN  /\ storage' = h.storage
           /\ reqs' = [reqs EXCEPT ![r] =
                  IF h.ok THEN Done([q EXCEPT !.stage = "handler"], 200, NoneRec)
                  ELSE Done([q EXCEPT !.stage = "limit"], 429, NoneRec)]
    /\ UNCHANGED <<users, nextUid, products, nextPid, now>>

----------------------------------------------------------------------------
(* Registration under concurrency *)

RoleInputs == {"admin", "user", "guest", "Admin", "user ", RoleAbsent, RoleNull}

Body(e, u, p, ro) == [email |-> e, username |-> u, password |-> p, role |-> ro]

RegBodies ==
    {Body(e, <<"a", "l", "i">>, <<"s", "e", "c", "r", "e", "t">>, ro) :
        e \in {EmailA}, ro \in RoleInputs}
    \cup {Body(EmailA, <<"b", "o", "b">>, <<"s", "e", "c", "r", "e", "t">>, "admin"),
          Body(EmailB, <<"a", "l">>, <<"s", "e", "c", "r", "e", "t">>, "admin"),
          Body(EmailB, <<"b", "o", "b">>, <<"s", "e", "c", "r", "e">>, "user")}

InitEmpty ==
    /\ users = << >>
    /\ nextUid = 1
    /\ products = << >>
    /\ nextPid = 1
    /\ storage = << >>
    /\ now = 0
    /\ reqs = [r \in Slots |-> Idle]
    /\ sent = << >>
    /\ nreq = 0

NextRegister ==
    \/ \E r \in Slots, b \in RegBodies :
          nreq < MaxRegRequests /\ Register(r, "10.0.0.1", b)
    \/ \E r \in Slots : RegisterFindOne(r)
    \/ \E r \in Slots : RegisterInsertOne(r)
    \/ \E r \in Slots : Retire(r)

SpecRegister == InitEmpty /\ [][NextRegister]_vars

----------------------------------------------------------------------------
(* The access gate: the server starts on a directory that registrations    *)
(* left behind; clients present tokens while admins delete and elevate.    *)

Secret == <<"s", "e", "c", "r", "e", "t">>

\* the record a registration with the password Secret left under this id
Stored(id, email, username, role) ==
    [email |-> email, username |-> username,
     hashed_password |-> HashPassword(Secret, id),
     role |-> role, scopes |-> ScopesForRole(role)]

\* what slot 2 presents: tokens a login issued, their claims as at login
LoginTokens == {Token(sub, "admin", FullScopes, 1, SECRET_KEY) : sub \in {1, 2}}

\* what slot 1 presents: any token, forged ones too, or no credential
GateTokens ==
    LoginTokens
    \cup {Token(sub, "guest", <<"read">>, 1, SECRET_KEY) : sub \in {1, 2, 3}}
    \cup {Token(NoSub, "admin", FullScopes, 1, SECRET_KEY),
          Token(1, "admin", FullScopes, 1, "wrong-secret-key"),
          MalformedToken}

GateCalls ==
    {[route |-> ro, arg |-> 0] : ro \in {"me", "get_products", "create_product", "get_all_users"}}
    \cup {[route |-> ro, arg |-> a] : ro \in {"delete_user", "elevate"}, a \in {1, 2}}
    \cup {[route |-> ro, arg |-> 1] : ro \in {"get_product", "update_product", "delete_product"}}

ProductBody == [name |-> <<"p", "e", "n">>, description |-> "ink", price |-> 1]

GateInstants == {TicksPerSec, TicksPerSec + 1}

Init ==
    /\ \E r1 \in {"admin", "guest"}, r2 \in {"user", "Admin", "admin "} :
          users = (1 :> Stored(1, EmailA, <<"a", "l", "i">>, r1))
               @@ (2 :> Stored(2, EmailB, <<"b", "o", "b">>, r2))
    /\ nextUid = 3
    /\ products = << >>
    /\ nextPid = 1
    /\ storage = << >>
    /\ now = 0
    /\ reqs = [r \in Slots |-> Idle]
    /\ sent = << >>
    /\ nreq = 0

\* two requests in flight, one per slot
Next ==
    \/ \E call \in GateCalls, cred \in GateTokens \cup {NoneRec} :
          Protected(1, call.route, "10.0.0.1", cred, call.arg,
                    IF HasBody(call.route) THEN ProductBody ELSE NoneRec)
    \/ \E call \in GateCalls, cred \in LoginTokens :
          Protected(2, call.route, "10.0.0.1", cred, call.arg,
                    IF HasBody(call.route) THEN ProductBody ELSE NoneRec)
    \/ \E r \in Slots : FindUser(r)
    \/ \E r \in Slots : GetProducts(r)
    \/ \E r \in Slots : GetProduct(r)
    \/ \E r \in Slots : CreateProduct(r)
    \/ \E r \in Slots : UpdateFind(r)
    \/ \E r \in Slots : UpdateProduct(r)
    \/ \E r \in Slots : DeleteProduct(r)
    \/ \E r \in Slots : GetAllUsers(r)
    \/ \E r \in Slots : DeleteUser(r)
    \/ \E r \in Slots : ElevateFind(r)
    \/ \E r \in Slots : ElevateUpdate(r)
    \/ \E t \in GateInstants : Tick(t)

Spec == Init /\ [][Next]_vars

----------------------------------------------------------------------------
(* The rate limiter on registration: one route, two client addresses, the  *)
(* clock observed around the end of a window.                              *)

LimBodies ==
    {Body(EmailA, <<"a", "l", "i">>, <<"s", "e", "c", "r", "e", "t">>, "user"),
     Body(EmailA, <<"a", "l">>, <<"s", "e", "c", "r", "e", "t">>, "user")}

LimInstants == {WindowTicks - 1, WindowTicks, WindowTicks + 1}

NextLimiter ==
    \/ \E r \in {1}, c \in Clients, b \in LimBodies :
          nreq < MaxLimRequests /\ Register(r, c, b)
    \/ \E r \in {1} : RegisterFindOne(r)
    \/ \E r \in {1} : RegisterInsertOne(r)
    \/ \E r \in {1} : Retire(r)
    \/ \E t \in LimInstants : Tick(t)

SpecLimiter == InitEmpty /\ [][NextLimiter]_vars

----------------------------------------------------------------------------
(* The rate limiter on a protected route: one client sends request after   *)
(* request to POST /products and DELETE /products/1, with good and bad     *)
(* credentials, inside one window.                                         *)

QuotaCreds ==
    {Token(1, "admin", FullScopes, 1, SECRET_KEY),
     Token(2, "admin", FullScopes, 1, SECRET_KEY),
     Token(1, "admin", FullScopes, 1, "wrong-secret-key"),
     NoneRec}

QuotaCalls ==
    {[route |-> "create_product", arg |-> 0], [route |-> "delete_product", arg |-> 1]}

QuotaInstants == {1}

NextQuota ==
    \/ \E call \in QuotaCalls, cred \in QuotaCreds :
          /\ nreq < MaxQuotaRequests
          /\ Protected(1, call.route, "10.0.0.1", cred, call.arg,
                       IF HasBody(call.route) THEN ProductBody ELSE NoneRec)
    \/ FindUser(1)
    \/ CreateProduct(1)
    \/ DeleteProduct(1)
    \/ Retire(1)
    \/ \E t \in QuotaInstants : Tick(t)

SpecQuota == Init /\ [][NextQuota]_vars

----------------------------------------------------------------------------
(* The products: an admin (slot 1) creates, reads and deletes them while a  *)
(* user-role writer (slot 2) updates them, both holding tokens of a login   *)
(* at time 0.                                                               *)

LoginToken(id, role) ==
    Token(id, role, ScopesForRole(role), ACCESS_TOKEN_EXPIRE_MINUTES * 60, SECRET_KEY)

OtherBody == [name |-> <<"i", "n", "k">>, description |-> "blue", price |-> 2]

NegativeBody == [name |-> <<"p", "e", "n">>, description |-> "ink", price |-> -1]

AdminCalls ==
    {[route |-> "create_product", arg |-> 0, body |-> b] : b \in {ProductBody, NegativeBody}}
    \cup {[route |-> ro, arg |-> a, body |-> NoneRec] :
             ro \in {"get_product", "delete_product"}, a \in 1..MaxProducts}

WriterCalls ==
    {[route |-> "update_product", arg |-> a, body |-> b] :
        a \in 1..MaxProducts, b \in {OtherBody, NegativeBody}}

ProdInstants == {1}

InitProducts ==
    /\ users = (1 :> Stored(1, EmailA, <<"a", "l", "i">>, "admin"))
             @@ (2 :> Stored(2, EmailB, <<"b", "o", "b">>, "user"))
    /\ nextUid = 3
    /\ products = << >>
    /\ nextPid = 1
    /\ storage = << >>
    /\ now = 0
    /\ reqs = [r \in Slots |-> Idle]
    /\ sent = << >>
    /\ nreq = 0

NextProducts ==
    \/ \E call \in AdminCalls :
          /\ nreq < MaxProdRequests
          /\ Protected(1, call.route, "10.0.0.1", LoginToken(1, "admin"), call.arg, call.body)
    \/ \E call \in WriterCalls :
          /\ nreq < MaxProdRequests
          /\ Protected(2, call.route, "10.0.0.2", LoginToken(2, "user"), call.arg, call.body)
    \/ \E r \in Slots : FindUser(r)
    \/ \E r \in Slots : GetProduct(r)
    \/ \E r \in Slots : CreateProduct(r)
    \/ \E r \in Slots : UpdateFind(r)
    \/ \E r \in Slots : UpdateProduct(r)
    \/ \E r \in Slots : DeleteProduct(r)
    \/ \E r \in Slots : Retire(r)
    \/ \E t \in ProdInstants : Tick(t)

SpecProducts == InitProducts /\ [][NextProducts]_vars

----------------------------------------------------------------------------
(* Quota by client and route inside one window: an admin at 10.0.0.1       *)
(* (slot 1) deletes and reads products; slot 2 carries deletes of product  *)
(* 1 from either address and the public routes.                            *)

ShareCalls ==
    {[route |-> "delete_product", arg |-> a] : a \in {1, 2}}
    \cup {[route |-> "get_product", arg |-> 1], [route |-> "get_products", arg |-> 0]}

NextShare ==
    \/ \E call \in ShareCalls :
          /\ nreq < MaxShareRequests
          /\ Protected(1, call.route, "10.0.0.1", LoginToken(1, "admin"), call.arg, NoneRec)
    \/ \E c \in Clients :
          /\ nreq < MaxShareRequests
          /\ Protected(2, "delete_product", c, LoginToken(1, "admin"), 1, NoneRec)
    \/ \E route \in {"root", "health"} :
          /\ nreq < MaxShareRequests
          /\ Public(2, route, "10.0.0.1")
    \/ \E r \in Slots : FindUser(r)
    \/ \E r \in Slots : GetProducts(r)
    \/ \E r \in Slots : GetProduct(r)
    \/ \E r \in Slots : DeleteProduct(r)
    \/ \E r \in Slots : Retire(r)

SpecShare == InitProducts /\ [][NextShare]_vars

----------------------------------------------------------------------------
(* Progress: the product requests of the two callers and registrations     *)
(* (slot 2), every store call answered and every ready handler resumed.    *)

LiveRegBodies ==
    {Body(EmailC, <<"c", "a", "l">>, Secret, "user"),
     Body(EmailC, <<"c", "a", "l">>, Secret, RoleNull)}

NextLive ==
    \/ \E call \in AdminCalls :
          /\ nreq < MaxProdRequests
          /\ call.route = "create_product" => nextPid <= MaxProducts
          /\ Protected(1, call.route, "10.0.0.1", LoginToken(1, "admin"), call.arg, call.body)
    \/ \E call \in WriterCalls :
          /\ nreq < MaxProdRequests
          /\ Protected(2, call.route, "10.0.0.2", LoginToken(2, "user"), call.arg, call.body)
    \/ \E r \in Slots : FindUser(r)
    \/ \E r \in Slots : GetProduct(r)
    \/ \E r \in Slots : CreateProduct(r)
    \/ \E r \in Slots : UpdateFind(r)
    \/ \E r \in Slots : UpdateProduct(r)
    \/ \E r \in Slots : DeleteProduct(r)
    \/ \E r \in Slots : Retire(r)
    \/ \E t \in ProdInstants : Tick(t)
    \/ \E b \in LiveRegBodies :
          /\ nreq < MaxProdRequests
          /\ Register(2, "10.0.0.2", b)
    \/ RegisterFindOne(2)
    \/ RegisterInsertOne(2)

\* the continuation of the request of slot r after the await it is at
Resume(r) ==
    \/ FindUser(r)
    \/ GetProduct(r)
    \/ CreateProduct(r)
    \/ UpdateFind(r)
    \/ UpdateProduct(r)
    \/ DeleteProduct(r)
    \/ RegisterFindOne(r)
    \/ RegisterInsertOne(r)

SpecLive == InitProducts /\ [][NextLive]_vars /\ \A r \in Slots : WF_vars(Resume(r))

----------------------------------------------------------------------------
(* Tokens that outlive a change of privileges: user 2 holds the token of a *)
(* login at time 0, with the role user and the scopes read and write, and  *)
(* presents it (slot 2) while the admin elevates user 2 (slot 1).          *)

StaleCalls ==
    {[route |-> "delete_product", arg |-> 1], [route |-> "elevate", arg |-> 1],
     [route |-> "get_all_users", arg |-> 0], [route |-> "delete_user", arg |-> 1]}

NextStale ==
    \/ /\ nreq < MaxStaleRequests
       /\ Protected(1, "elevate", "10.0.0.1", LoginToken(1, "admin"), 2, NoneRec)
    \/ \E call \in StaleCalls :
          /\ nreq < MaxStaleRequests
          /\ Protected(2, call.route, "10.0.0.2", LoginToken(2, "user"), call.arg, NoneRec)
    \/ \E r \in Slots : FindUser(r)
    \/ \E r \in Slots : ElevateFind(r)
    \/ \E r \in Slots : ElevateUpdate(r)
    \/ \E r \in Slots : DeleteProduct(r)
    \/ \E r \in Slots : GetAllUsers(r)
    \/ \E r \in Slots : DeleteUser(r)
    \/ \E r \in Slots : Retire(r)

SpecStale == InitProducts /\ [][NextStale]_vars

----------------------------------------------------------------------------
(* Deletion of users: the admin (slot 1) creates products, deletes users,  *)
(* itself too, and reads /me; user 2 (slot 2) creates products and reads   *)
(* /me.                                                                    *)

DelAdminCalls ==
    {[route |-> "create_product", arg |-> 0, body |-> ProductBody],
     [route |-> "me", arg |-> 0, body |-> NoneRec]}
    \cup {[route |-> "delete_user", arg |-> a, body |-> NoneRec] : a \in {1, 2, 3}}

DelUserCalls ==
    {[route |-> "create_product", arg |-> 0, body |-> OtherBody],
     [route |-> "me", arg |-> 0, body |-> NoneRec]}

NextDeleteUser ==
    \/ \E call \in DelAdminCalls :
          /\ nreq < MaxDelRequests
          /\ Protected(1, call.route, "10.0.0.1", LoginToken(1, "admin"), call.arg, call.body)
    \/ \E call \in DelUserCalls :
          /\ nreq < MaxDelRequests
          /\ Protected(2, call.route, "10.0.0.2", LoginToken(2, "user"), call.arg, call.body)
    \/ \E r \in Slots : FindUser(r)
    \/ \E r \in Slots : CreateProduct(r)
    \/ \E r \in Slots : DeleteUser(r)
    \/ \E r \in Slots : Retire(r)

SpecDeleteUser == InitProducts /\ [][NextDeleteUser]_vars

----------------------------------------------------------------------------
(* Validation at the boundary: registrations (slot 1) and product writes   *)
(* by an admin (slot 2) with well-formed and ill-formed bodies.            *)

ValRegBodies ==
    {Body(EmailC, <<"c", "a", "l">>, Secret, "user"),
     Body(EmailC, <<"c", "a">>, Secret, "user"),
     Body(EmailC, <<"c", "a", "l">>, <<"s", "e", "c", "r", "e">>, "user"),
     Body(<<"c", "x", ".", "i", "o">>, <<"c", "a", "l">>, Secret, "user"),
     Body(<<"c", "@", "x">>, <<"c", "a", "l">>, Secret, "user"),
     Body(EmailC, <<"c", "a", "l">>, Absent, "user"),
     Body(Absent, <<"c", "a", "l">>, Secret, "user")}

ValProdBodies ==
    {ProductBody,
     [name |-> <<"p", "e">>, description |-> "ink", price |-> 1],
     [name |-> <<"p", "e", "n">>, description |-> NoText, price |-> 1],
     [name |-> Absent, description |-> "ink", price |-> 1]}

ValProdCalls ==
    {[route |-> "create_product", arg |-> 0], [route |-> "update_product", arg |-> 1]}

NextValidation ==
    \/ \E b \in ValRegBodies :
          nreq < MaxValRequests /\ Register(1, "10.0.0.1", b)
    \/ RegisterFindOne(1)
    \/ RegisterInsertOne(1)
    \/ \E call \in ValProdCalls, b \in ValProdBodies :
          /\ nreq < MaxValRequests
          /\ Protected(2, call.route, "10.0.0.2", LoginToken(1, "admin"), call.arg, b)
    \/ FindUser(2)
    \/ CreateProduct(2)
    \/ UpdateFind(2)
    \/ UpdateProduct(2)
    \/ \E r \in Slots : Retire(r)

SpecValidation == InitProducts /\ [][NextValidation]_vars

----------------------------------------------------------------------------
(* Accounts and tokens: registrations for one email (both slots), logins   *)
(* (slot 1), and calls that present the token of the login response held  *)
(* in slot 1, as issued or altered (slot 2), around the token's expiry.    *)

OtherSecret == <<"h", "u", "n", "t", "e", "r">>

AuthRegBodies ==
    {Body(EmailA, <<"a", "l", "i">>, Secret, "admin"),
     Body(EmailA, <<"b", "o", "b">>, OtherSecret, "user")}

LoginBodies ==
    {[email |-> EmailA, password |-> Secret],
     [email |-> EmailA, password |-> OtherSecret],
     [email |-> EmailB, password |-> Secret]}

\* the lifetime of a login token
TokenLife == ACCESS_TOKEN_EXPIRE_MINUTES * 60 * TicksPerSec

AuthInstants == {1, TokenLife, TokenLife + 1}

\* what a holder of tok can present: tok itself, or tok with its subject,
\* its role and scopes or its expiry rewritten under the old signature
Presented(tok) ==
    {tok,
     [tok EXCEPT !.sub = (tok.sub % 2) + 1],
     [tok EXCEPT !.role = "admin", !.scopes = FullScopes],
     [tok EXCEPT !.exp = tok.exp + ACCESS_TOKEN_EXPIRE_MINUTES * 60]}

NextAuth ==
    \/ \E r \in Slots, b \in AuthRegBodies :
          nreq < MaxAuthRequests /\ Register(r, "10.0.0.1", b)
    \/ \E r \in Slots : RegisterFindOne(r)
    \/ \E r \in Slots : RegisterInsertOne(r)
    \/ \E b \in LoginBodies :
          nreq < MaxAuthRequests /\ Login(1, "10.0.0.1", b)
    \/ LoginFindOne(1)
    \/ \E route \in {"me", "get_all_users"} :
          /\ nreq < MaxAuthRequests
          /\ IsDone(1, "login") /\ reqs[1].status = 200
          /\ \E cred \in Presented(reqs[1].out.access_token) :
                Protected(2, route, "10.0.0.1", cred, 0, NoneRec)
    \/ FindUser(2)
    \/ GetAllUsers(2)
    \/ \E r \in Slots : Retire(r)
    \/ \E t \in AuthInstants : Tick(t)

SpecAuth == InitEmpty /\ [][NextAuth]_vars

----------------------------------------------------------------------------
(* Claims *)

Protects(route) ==
    route \in {"me", "get_products", "get_product", "create_product", "update_product",
               "delete_product", "get_all_users", "delete_user", "elevate"}

\* the request went past the scope/role dependency
PastGate(q) == q.stage \in {"validate", "limit", "handler"}

\* the directory has answered the lookup of the request's subject
LookedUp(q) == q.stage \in {"lookup", "gate", "validate", "limit", "handler"}

\* C1: once the user of a request to a route that requires scope S is
\* resolved, the request goes on to the handler iff S is among the scopes of
\* the directory record; otherwise it ends 403 at the gate, no handler run.
C1_RequireScope ==
    \A r \in Slots :
        ( /\ reqs[r] # Idle
          /\ Protects(reqs[r].route)
          /\ Requirement(reqs[r].route).kind = "scope"
          /\ reqs[r].found # NoneRec )
        => LET q == reqs[r]
               has == \E i \in DOMAIN q.found.scopes :
                         q.found.scopes[i] = Requirement(q.route).need
           IN  /\ has <=> PastGate(q)
               /\ ~has => (q.pc = "done" /\ q.status = 403 /\ q.stage = "gate")

\* a user with the scopes read, write was refused the deletion of a product,
\* while another request passed the gate of a scope-protected route
C1_Witness ==
    \E r1, r2 \in Slots :
        /\ IsDone(r1, "delete_product") /\ reqs[r1].status = 403
        /\ reqs[r1].found # NoneRec /\ reqs[r1].found.scopes = <<"read", "write">>
        /\ reqs[r2] # Idle /\ Protects(reqs[r2].route)
        /\ Requirement(reqs[r2].route).kind = "scope" /\ PastGate(reqs[r2])

\* C2: once the user of a request to a route that requires role R is
\* resolved, the request goes on iff the role string of the directory record
\* equals R exactly; any other string ends 403 at the gate, no handler run.
C2_RequireRole ==
    \A r \in Slots :
        ( /\ reqs[r] # Idle
          /\ Protects(reqs[r].route)
          /\ Requirement(reqs[r].route).kind = "role"
          /\ reqs[r].found # NoneRec )
        => LET q == reqs[r]
               is == q.found.role = Requirement(q.route).need
           IN  /\ is <=> PastGate(q)
               /\ ~is => (q.pc = "done" /\ q.status = 403 /\ q.stage = "gate")

\* a user whose role is "Admin" or "admin " was refused an admin-only route,
\* while an admin passed one
C2_Witness ==
    \E r1, r2 \in Slots :
        /\ reqs[r1] # Idle /\ reqs[r1].route \in {"get_all_users", "delete_user"}
        /\ reqs[r1].pc = "done" /\ reqs[r1].status = 403
        /\ reqs[r1].found # NoneRec /\ reqs[r1].found.role \in {"Admin", "admin "}
        /\ reqs[r2] # Idle /\ reqs[r2].route \in {"get_all_users", "delete_user"}
        /\ PastGate(reqs[r2])

\* C3: when the directory lookup of a request with a verified token runs and
\* holds no record for the subject, the request ends 401 there, whatever the
\* claims; neither the directory nor the products change.
C3_UnknownSubjectUnauthenticated ==
    [][\A r \in Slots :
          ( /\ reqs[r] # Idle
            /\ reqs[r].pc = "find_user"
            /\ reqs[r].cred.sub \notin DOMAIN users
            /\ reqs'[r] # reqs[r] )
          => ( /\ reqs'[r].pc = "done"
               /\ reqs'[r].status = 401
               /\ reqs'[r].stage = "lookup"
               /\ users' = users
               /\ products' = products
               /\ storage' = storage )]_vars

\* the subject of a token with admin claims was deleted after the server
\* started, and the token was answered 401 at the lookup
C3_Witness ==
    \E r \in Slots :
        /\ reqs[r] # Idle /\ Protects(reqs[r].route)
        /\ reqs[r].pc = "done" /\ reqs[r].status = 401 /\ reqs[r].stage = "lookup"
        /\ reqs[r].cred.sub \in {1, 2} /\ reqs[r].cred.sub \notin DOMAIN users
        /\ reqs[r].cred.role = "admin"

\* C4: a token signed with the server's secret that is presented at a time
\* at or after its expiry is answered 401, also when its subject exists.
C4_ExpiredRejected ==
    [][\A r \in Slots :
          ( /\ reqs[r] = Idle
            /\ reqs'[r] # Idle
            /\ reqs'[r].cred # NoneRec
            /\ reqs'[r].cred.key = SECRET_KEY
            /\ now >= reqs'[r].cred.exp * TicksPerSec )
          => ( /\ reqs'[r].pc = "done"
               /\ reqs'[r].status = 401
               /\ reqs'[r].stage = "decode" )]_vars

\* a token of an existing user was presented at its expiry instant exactly
\* and was answered 401
C4_Witness ==
    \E r \in Slots :
        /\ reqs[r] # Idle /\ reqs[r].cred # NoneRec
        /\ reqs[r].cred.key = SECRET_KEY
        /\ reqs[r].cred.sub \in DOMAIN users
        /\ now = reqs[r].cred.exp * TicksPerSec
        /\ reqs[r].pc = "done" /\ reqs[r].status = 401
        /\ reqs[r].out = [detail |-> "Token has expired"]

\* C5: a token signed with another secret ends 401 at the decoding, whatever
\* its claims: no directory lookup, no handler.
C5_WrongSecretRejected ==
    \A r \in Slots :
        ( /\ reqs[r] # Idle
          /\ reqs[r].cred # NoneRec
          /\ reqs[r].cred.key # SECRET_KEY )
        => ( /\ reqs[r].pc = "done"
             /\ reqs[r].status = 401
             /\ reqs[r].stage = "decode"
             /\ reqs[r].found = NoneRec )

\* a wrongly signed token with admin claims, whose subject is an admin of
\* the directory, was answered 401 before it expired
C5_Witness ==
    \E r \in Slots :
        /\ reqs[r] # Idle /\ reqs[r].cred # NoneRec
        /\ reqs[r].cred.key # SECRET_KEY
        /\ now < reqs[r].cred.exp * TicksPerSec
        /\ reqs[r].cred.sub \in DOMAIN users
        /\ users[reqs[r].cred.sub].role = "admin"
        /\ InSeq("admin", reqs[r].cred.scopes)
        /\ reqs[r].status = 401

\* the authorization decision of a request whose lookup has run
Decision(q) ==
    IF q.stage = "lookup" THEN "Unauthenticated"
    ELSE IF q.stage = "gate" THEN "Forbidden"
    ELSE "Authorized"

\* C6: two verified tokens with the same subject, presented to the same
\* route and looked up against the same directory record, get the same
\* decision, whatever role and scopes the tokens carry.
C6_DirectoryDecides ==
    \A r1, r2 \in Slots :
        ( /\ reqs[r1] # Idle /\ reqs[r2] # Idle
          /\ Protects(reqs[r1].route)
          /\ reqs[r1].route = reqs[r2].route
          /\ LookedUp(reqs[r1]) /\ LookedUp(reqs[r2])
          /\ reqs[r1].cred.sub = reqs[r2].cred.sub
          /\ reqs[r1].found = reqs[r2].found )
        => Decision(reqs[r1]) = Decision(reqs[r2])

\* a token with admin claims and one with guest claims, both of a subject
\* that is a guest in the directory, were both refused the elevation
C6_Witness ==
    \E r1, r2 \in Slots :
        /\ IsDone(r1, "elevate") /\ IsDone(r2, "elevate")
        /\ LookedUp(reqs[r1]) /\ LookedUp(reqs[r2])
        /\ reqs[r1].cred.sub = reqs[r2].cred.sub
        /\ reqs[r1].cred.role = "admin" /\ reqs[r2].cred.role = "guest"
        /\ reqs[r1].found = reqs[r2].found
        /\ reqs[r1].found # NoneRec /\ reqs[r1].found.role = "guest"
        /\ reqs[r1].status = 403 /\ reqs[r2].status = 403

\* the role-to-scope table of the specification
TableScopes(ro) ==
    CASE ro = "admin" -> <<"read", "write", "delete", "admin">>
      [] ro \in {"user", RoleAbsent} -> <<"read", "write">>
      [] ro = "guest" -> <<"read">>
      [] OTHER -> <<"read">>

\* C7: every successful registration stores the requested role with exactly
\* the scopes the role-to-scope table gives for the role string as sent:
\* admin -> read, write, delete, admin; user or no role -> read, write;
\* guest and every other string (case and whitespace variants too) -> read.
C7_RegisteredScopesMatchTable ==
    \A r \in Slots :
        (IsDone(r, "register") /\ reqs[r].status = 201) =>
            LET id == reqs[r].out.user_id IN
            /\ id \in DOMAIN users
            /\ users[id].scopes = TableScopes(reqs[r].body.role)
            /\ users[id].email = reqs[r].body.email

\* a registration with role "Admin" succeeded and got the read scope only
C7_Witness ==
    \E r \in Slots :
        /\ IsDone(r, "register") /\ reqs[r].status = 201
        /\ reqs[r].body.role = "Admin"
        /\ users[reqs[r].out.user_id].scopes = <<"read">>

\* C8: a register request whose directory lookup runs while a user with its
\* email exists is answered 400, creates no user record and leaves the
\* directory as it is.
C8_DuplicateEmailConflict ==
    [][\A r \in Slots :
          ( /\ reqs[r] # Idle
            /\ reqs[r].pc = "reg_find"
            /\ \E i \in DOMAIN users : users[i].email = reqs[r].body.email
            /\ reqs'[r] # reqs[r] )
          => ( /\ reqs'[r].pc = "done"
               /\ reqs'[r].status = 400
               /\ users' = users
               /\ nextUid' = nextUid )]_vars

\* a request for a registered email, sent with another username, ended 400
\* and the stored record still has the first username
C8_Witness ==
    \E r \in Slots :
        /\ IsDone(r, "register") /\ reqs[r].status = 400
        /\ \E i \in DOMAIN users :
              /\ users[i].email = reqs[r].body.email
              /\ users[i].username # reqs[r].body.username

\* C9: the directory never holds two user records with the same email.
C9_UniqueEmail ==
    \A i, j \in DOMAIN users : users[i].email = users[j].email => i = j

\* C10: among the requests one client address sends to a route inside one
\* window, requests 1..N are not rate limited and request N+1 and every
\* further one is answered 429.
C10_QuotaPerWindow ==
    \A r \in Slots :
        IsDone(r, "register") =>
            (reqs[r].status = 429 <=> reqs[r].nth > RouteLimit("register"))

\* C11: when a client that has used up the quota of the registration route
\* sends a well-formed request to it at or after the end of the window, the
\* request is admitted to the handler and the counter restarts at one in a
\* new window.
C11_WindowReset ==
    [][\A r \in Slots :
          LET key == LimitKey(reqs'[r].client, "register", 0) IN
          ( /\ reqs[r] = Idle
            /\ reqs'[r] # Idle
            /\ reqs'[r].route = "register"
            /\ ValidRegister(reqs'[r].body)
            /\ key \in DOMAIN storage
            /\ storage[key].count >= RouteLimit("register")
            /\ storage[key].expiry <= now )
          => ( /\ reqs'[r].stage = "handler"
               /\ storage'[key].count = 1
               /\ storage'[key].expiry = now + WindowTicks )]_vars

\* a client that had been answered 429 in a window was admitted by its first
\* request after the window ended
C11_Witness ==
    \E r \in Slots :
        /\ reqs[r] # Idle /\ reqs[r].route = "register"
        /\ reqs[r].seen.count > RouteLimit("register")
        /\ ~reqs[r].seen.live
        /\ reqs[r].stage = "handler"
        /\ now >= WindowTicks

\* C12: a request to a protected route that arrives when the quota of its
\* (client, route) window is used up is answered 429 by the limiter whatever
\* its credential, and no directory lookup is made for it.
C12_LimiterOutermost ==
    \A r \in Slots :
        ( /\ reqs[r] # Idle
          /\ Protects(reqs[r].route)
          /\ reqs[r].pc = "done"
          /\ reqs[r].seen.live
          /\ reqs[r].seen.count >= RouteLimit(reqs[r].route) )
        => ( /\ reqs[r].status = 429
             /\ reqs[r].stage = "limit"
             /\ reqs[r].found = NoneRec )

\* C13: a request to GET /products that presents the token of a user
\* registered with role guest (claims: role guest, scopes read) ends 403.
C13_GuestCannotReadProducts ==
    \A r \in Slots :
        ( /\ IsDone(r, "get_products")
          /\ LookedUp(reqs[r])
          /\ reqs[r].found # NoneRec
          /\ reqs[r].found.role = "guest"
          /\ reqs[r].found.scopes = ScopesForRole("guest")
          /\ reqs[r].cred.role = "guest"
          /\ reqs[r].cred.scopes = <<"read">> )
        => reqs[r].status = 403

\* the requirement table of the specification
Meets(route, u) ==
    CASE route \in {"get_products", "get_product"}       -> InSeq("read", u.scopes)
      [] route \in {"create_product", "update_product"} -> InSeq("write", u.scopes)
      [] route = "delete_product"                       -> InSeq("delete", u.scopes)
      [] route \in {"get_all_users", "delete_user"}     -> u.role = "admin"
      [] route = "elevate"                              -> InSeq("admin", u.scopes)
      [] route = "me"                                   -> TRUE

\* C14: a request whose user the directory resolved goes past the gate of
\* its route exactly when the user meets the route's requirement in the
\* table (read for list and get, write for create and update, delete for
\* delete, role admin for the user listing and deletion, scope admin for
\* elevation, nothing more for /me); otherwise it ends 403 at the gate.
C14_RouteRequirements ==
    \A r \in Slots :
        ( /\ reqs[r] # Idle
          /\ Protects(reqs[r].route)
          /\ LookedUp(reqs[r])
          /\ reqs[r].found # NoneRec )
        => LET q == reqs[r] IN
           /\ PastGate(q) <=> Meets(q.route, q.found)
           /\ ~Meets(q.route, q.found)
                 => (q.pc = "done" /\ q.status = 403 /\ q.stage = "gate")

\* a user-role account was refused the deletion of a product while a guest
\* account was refused the creation of one
C14_Witness ==
    \E r1, r2 \in Slots :
        /\ IsDone(r1, "delete_product") /\ LookedUp(reqs[r1])
        /\ reqs[r1].found # NoneRec
        /\ reqs[r1].found.role = "user" /\ reqs[r1].found.scopes = <<"read", "write">>
        /\ reqs[r1].status = 403
        /\ IsDone(r2, "create_product") /\ LookedUp(reqs[r2])
        /\ reqs[r2].found # NoneRec
        /\ reqs[r2].found.role = "guest" /\ reqs[r2].found.scopes = <<"read">>
        /\ reqs[r2].status = 403

\* C15: a request to a protected route that arrives without a bearer
\* credential ends 403 at the extraction; one that arrives with a credential
\* that is malformed, wrongly signed or expired ends 401 at the decoding.
C15_MissingVersusInvalid ==
    [][\A r \in Slots :
          ( /\ reqs[r] = Idle
            /\ reqs'[r] # Idle
            /\ Protects(reqs'[r].route) )
          => LET q == reqs'[r] IN
             /\ q.cred = NoneRec
                   => ( /\ q.pc = "done" /\ q.status = 403 /\ q.stage = "bearer"
                        /\ q.found = NoneRec )
             /\ ( /\ q.cred # NoneRec
                  /\ \/ q.cred = MalformedToken
                     \/ q.cred.key # SECRET_KEY
                     \/ q.cred.exp * TicksPerSec <= now )
                   => ( /\ q.pc = "done" /\ q.status = 401 /\ q.stage = "decode"
                        /\ q.found = NoneRec )]_vars

\* one request without a credential was answered 403 and one with an expired
\* token 401
C15_Witness ==
    \E r1, r2 \in Slots :
        /\ reqs[r1] # Idle /\ reqs[r1].cred = NoneRec
        /\ reqs[r1].pc = "done" /\ reqs[r1].status = 403
        /\ reqs[r2] # Idle /\ reqs[r2].cred # NoneRec
        /\ reqs[r2].cred.key = SECRET_KEY
        /\ reqs[r2].pc = "done" /\ reqs[r2].status = 401
        /\ reqs[r2].out = [detail |-> "Token has expired"]

\* the steps a request to a protected route has been through, in order
StageOrder(q) ==
    /\ q.stage \in {"bearer", "decode", "lookup", "gate", "validate", "limit", "handler"}
    /\ q.stage = "bearer"
          => (q.cred = NoneRec /\ q.found = NoneRec /\ q.pc = "done" /\ q.status = 403)
    /\ q.stage = "decode"
          => ( /\ q.cred # NoneRec /\ q.found = NoneRec
               /\ q.pc \in {"find_user", "done"}
               /\ q.pc = "done" => q.status = 401 )
    /\ LookedUp(q)
          => (q.cred # NoneRec /\ q.cred.key = SECRET_KEY /\ q.cred.sub # NoSub)
    /\ q.stage = "lookup"
          => (q.found = NoneRec /\ q.pc = "done" /\ q.status = 401)
    /\ q.stage = "gate"
          => (q.found # NoneRec /\ q.pc = "done" /\ q.status = 403)
    /\ PastGate(q)
          => (q.found # NoneRec /\ Meets(q.route, q.found))
    /\ q.pc \notin {"find_user", "done"} => q.stage = "handler"

\* C16: every request to a protected route goes through extraction,
\* verification, lookup and the scope/role predicate in that order and ends
\* Unauthenticated (at the extraction, the verification or the lookup),
\* Forbidden (at the predicate) or Authorized; users and products change only
\* by a step of the handler of an Authorized request.
C16_GatePipeline ==
    /\ [](\A r \in Slots :
            (reqs[r] # Idle /\ Protects(reqs[r].route)) => StageOrder(reqs[r]))
    /\ [][(users' # users \/ products' # products)
            => \E r \in Slots :
                  /\ reqs[r] # Idle
                  /\ Protects(reqs[r].route)
                  /\ reqs[r].stage = "handler"
                  /\ reqs[r].pc \notin {"find_user", "done"}
                  /\ reqs'[r] # reqs[r]]_vars

\* one request ended Forbidden at the predicate and changed nothing, while an
\* Authorized one deleted a user
C16_Witness ==
    \E r1, r2 \in Slots :
        /\ reqs[r1] # Idle /\ Protects(reqs[r1].route)
        /\ reqs[r1].pc = "done" /\ reqs[r1].stage = "gate"
        /\ IsDone(r2, "delete_user") /\ reqs[r2].stage = "handler"
        /\ reqs[r2].status = 204
        /\ reqs[r2].arg \notin DOMAIN users

\* C17: the write of an authorized elevate request for a user id that is in
\* the directory sets that record's role to admin and its scopes to read,
\* write, delete, admin, whatever they were (nothing changes if the user is
\* an admin already), leaves email and username and every other record as
\* they are and answers 200; the lookup of an elevate request for an id that
\* is not in the directory answers 404 and changes nothing.
C17_Elevate ==
    [][\A r \in Slots :
          ( /\ reqs[r] # Idle
            /\ reqs[r].route = "elevate"
            /\ reqs[r].pc \in {"elevate_find", "elevate_update"}
            /\ reqs'[r] # reqs[r] )
          => LET q == reqs[r]
                 id == reqs[r].arg
             IN  /\ products' = products
                 /\ (q.pc = "elevate_find" /\ id \notin DOMAIN users)
                       => ( /\ reqs'[r].pc = "done"
                            /\ reqs'[r].status = 404
                            /\ users' = users )
                 /\ (q.pc = "elevate_update" /\ id \in DOMAIN users)
                       => ( /\ reqs'[r].pc = "done"
                            /\ reqs'[r].status = 200
                            /\ DOMAIN users' = DOMAIN users
                            /\ users'[id].role = "admin"
                            /\ users'[id].scopes = <<"read", "write", "delete", "admin">>
                            /\ users'[id].email = users[id].email
                            /\ users'[id].username = users[id].username
                            /\ \A j \in DOMAIN users \ {id} : users'[j] = users[j]
                            /\ (users[id].role = "admin" /\ users[id].scopes = FullScopes)
                                  => users' = users )]_vars

\* an admin elevated user 2, who was not an admin when the server started
C17_Witness ==
    \E r \in Slots :
        /\ IsDone(r, "elevate") /\ reqs[r].status = 200
        /\ reqs[r].arg = 2 /\ 2 \in DOMAIN users
        /\ users[2].role = "admin" /\ users[2].scopes = FullScopes
        /\ users[2].username = <<"b", "o", "b">>
        /\ reqs[r].found # NoneRec /\ reqs[r].found.id = 1

\* the request of slot r takes the store call it is waiting at
Acts(r, route, pc) ==
    /\ reqs[r] # Idle
    /\ reqs[r].route = route
    /\ reqs[r].pc = pc
    /\ reqs'[r] # reqs[r]

\* C18: the insert of an authorized create stores the product under a new
\* id with created_by the id of the creating user and answers 201; the delete
\* of a stored product answers 204 and removes exactly that product; a get,
\* an update or a delete that looks for an id that is not stored answers 404
\* and changes nothing; an id enters the store only by the insert of a
\* create, so a deleted id stays absent.
C18_ProductLifecycle ==
    [][\A r \in Slots :
          LET q == reqs[r] IN
          /\ Acts(r, "create_product", "insert_product")
                => ( /\ q.user.id \notin DOMAIN products
                     /\ DOMAIN products' = DOMAIN products \cup {q.user.id}
                     /\ products'[q.user.id].created_by = q.cred.sub
                     /\ q.cred.sub = q.found.id
                     /\ \A j \in DOMAIN products : products'[j] = products[j]
                     /\ reqs'[r].pc = "done" /\ reqs'[r].status = 201
                     /\ reqs'[r].out.created_by = q.cred.sub )
          /\ (Acts(r, "delete_product", "delete_product") /\ q.arg \in DOMAIN products)
                => ( /\ DOMAIN products' = DOMAIN products \ {q.arg}
                     /\ \A j \in DOMAIN products' : products'[j] = products[j]
                     /\ reqs'[r].pc = "done" /\ reqs'[r].status = 204 )
          /\ ( /\ \/ Acts(r, "get_product", "find_product")
                   \/ Acts(r, "update_product", "update_find")
                   \/ Acts(r, "delete_product", "delete_product")
               /\ q.arg \notin DOMAIN products )
                => ( /\ reqs'[r].pc = "done" /\ reqs'[r].status = 404
                     /\ products' = products )
          /\ (reqs[r] # Idle /\ reqs'[r] # reqs[r] /\ ~Acts(r, "create_product", "insert_product"))
                => DOMAIN products' \subseteq DOMAIN products]_vars

\* the admin, whose requests follow one another, created product 1, deleted
\* it (the delete was counted by the limiter) and then got 404 for it
C18_Witness ==
    /\ IsDone(1, "get_product") /\ reqs[1].status = 404 /\ reqs[1].arg = 1
    /\ nextPid > 1 /\ 1 \notin DOMAIN products
    /\ LimitKey(reqs[1].client, "delete_product", 1) \in DOMAIN storage
    /\ reqs[1].seen.count = 0

\* C19: the write of an authorized update of a stored product sets its
\* name, description and price to those of the request, keeps its id,
\* created_by and created_at, leaves every other product as it is and answers
\* 200, whoever created the product; an update that looks for an id that is
\* not stored answers 404 and the store is unchanged.
C19_UpdateProduct ==
    [][\A r \in Slots :
          LET q == reqs[r] IN
          /\ (Acts(r, "update_product", "update_product") /\ q.arg \in DOMAIN products)
                => ( /\ DOMAIN products' = DOMAIN products
                     /\ products'[q.arg].name = q.body.name
                     /\ products'[q.arg].description = q.body.description
                     /\ products'[q.arg].price = q.body.price
                     /\ products'[q.arg].created_by = products[q.arg].created_by
                     /\ products'[q.arg].created_at = products[q.arg].created_at
                     /\ \A j \in DOMAIN products \ {q.arg} : products'[j] = products[j]
                     /\ reqs'[r].pc = "done" /\ reqs'[r].status = 200
                     /\ reqs'[r].out.id = q.arg )
          /\ (Acts(r, "update_product", "update_find") /\ q.arg \notin DOMAIN products)
                => ( /\ reqs'[r].pc = "done" /\ reqs'[r].status = 404
                     /\ products' = products )]_vars

\* the user-role writer updated a product the admin had created at a later
\* time, while another product stayed as created
C19_Witness ==
    \E r \in Slots, i, j \in DOMAIN products :
        /\ IsDone(r, "update_product") /\ reqs[r].status = 200 /\ reqs[r].arg = i
        /\ reqs[r].cred.sub = 2
        /\ products[i].created_by = 1
        /\ products[i].name = OtherBody.name /\ products[i].price = OtherBody.price
        /\ products[i].description = OtherBody.description
        /\ products[i].created_at < now
        /\ j # i /\ products[j].name = ProductBody.name

\* C20: an authorized create or update of a product whose price is negative
\* is answered 422.
C20_NegativePriceRejected ==
    \A r \in Slots :
        ( /\ reqs[r] # Idle
          /\ reqs[r].route \in {"create_product", "update_product"}
          /\ reqs[r].pc = "done"
          /\ PastGate(reqs[r])
          /\ reqs[r].body.price < 0 )
        => reqs[r].status = 422

\* the ill-formed registrations of the claim: a field missing, no
\* local@domain.tld shape, a username under 3 or a password under 6
BadRegister(b) ==
    \/ b.email = Absent \/ b.username = Absent \/ b.password = Absent
    \/ ~\E a, d \in 1..Len(b.email) :
           a > 1 /\ b.email[a] = "@" /\ d > a + 1 /\ d < Len(b.email) /\ b.email[d] = "."
    \/ Len(b.username) < 3
    \/ Len(b.password) < 6

\* the ill-formed product bodies of the claim: a field missing or a name
\* under 3
BadProduct(b) ==
    \/ b.name = Absent \/ b.description = NoText
    \/ Len(b.name) < 3

\* C21: an ill-formed registration is answered 422 on arrival, and an
\* ill-formed product create or update by a caller who passes the gate is
\* answered 422 before the handler; neither changes users or products, nor
\* draws an id.
C21_ValidationAtBoundary ==
    [][\A r \in Slots :
          /\ ( /\ reqs[r] = Idle /\ reqs'[r] # Idle
               /\ reqs'[r].route = "register"
               /\ BadRegister(reqs'[r].body) )
                => ( /\ reqs'[r].pc = "done" /\ reqs'[r].status = 422
                     /\ users' = users /\ products' = products
                     /\ nextUid' = nextUid )
          /\ ( /\ \/ Acts(r, "create_product", "find_user")
                   \/ Acts(r, "update_product", "find_user")
               /\ BadProduct(reqs[r].body)
               /\ reqs'[r].stage \notin {"lookup", "gate"} )
                => ( /\ reqs'[r].pc = "done" /\ reqs'[r].status = 422
                     /\ reqs'[r].stage = "validate"
                     /\ users' = users /\ products' = products
                     /\ nextPid' = nextPid )]_vars

\* a registration with a 5-character password and a product with a
\* 2-character name were both answered 422, and the store is as it started
C21_Witness ==
    /\ IsDone(1, "register") /\ reqs[1].status = 422
    /\ reqs[1].body.password = <<"s", "e", "c", "r", "e">>
    /\ reqs[2] # Idle /\ reqs[2].route \in {"create_product", "update_product"}
    /\ reqs[2].pc = "done" /\ reqs[2].status = 422
    /\ reqs[2].body.name = <<"p", "e">>
    /\ DOMAIN users = {1, 2} /\ products = << >>

\* C22: when the lookup of a login for email E with password P is answered,
\* the login succeeds (200 with a token) iff a user registered E with P is
\* in the directory; otherwise it ends 401 with the one response
\* "Incorrect email or password" and without a token.
C22_LoginIffPassword ==
    [][\A r \in Slots :
          Acts(r, "login", "login_find")
          => LET q == reqs[r]
                 registered ==
                     \E i \in DOMAIN users :
                        /\ users[i].email = q.body.email
                        /\ users[i].hashed_password =
                              HashPassword(q.body.password, users[i].hashed_password.salt)
             IN  /\ reqs'[r].pc = "done"
                 /\ reqs'[r].status = 200 <=> registered
                 /\ reqs'[r].status = 200 => "access_token" \in DOMAIN reqs'[r].out
                 /\ reqs'[r].status # 200
                       => ( /\ reqs'[r].status = 401
                            /\ reqs'[r].out = [detail |-> "Incorrect email or password"] )]_vars

NoHash(rec) == "hashed_password" \notin DOMAIN rec

\* C23: no response carries a password hash: not the body of any answer,
\* not a user of the admin listing, not the token of a login.
C23_NoHashOutward ==
    \A r \in Slots :
        (reqs[r] # Idle /\ reqs[r].pc = "done")
        => LET q == reqs[r] IN
           /\ NoHash(q.out)
           /\ (q.route = "get_all_users" /\ q.status = 200)
                 => \A u \in q.out.users : NoHash(u)
           /\ (q.route = "login" /\ q.status = 200)
                 => NoHash(q.out.access_token)

\* an admin who logged in listed the users, whose records hold hashes
C23_Witness ==
    /\ IsDone(1, "login") /\ reqs[1].status = 200
    /\ IsDone(2, "get_all_users") /\ reqs[2].status = 200
    /\ reqs[2].out.users # {}
    /\ \A u \in reqs[2].out.users :
          u.id \in DOMAIN users /\ ~NoHash(users[u.id])

\* C24: every user record of the directory has the role admin, user or
\* guest.
C24_RoleDomain ==
    \A i \in DOMAIN users : users[i].role \in {"admin", "user", "guest"}

\* C25: a request of client c to route r changes no limiter counter but the
\* one of c and r's path, it is answered 429 only when c itself has sent
\* more than the quota to r in the window, and GET /health is never
\* counted nor refused.
C25_QuotaSeparate ==
    [][/\ DOMAIN storage \subseteq DOMAIN storage'
       /\ \A k \in DOMAIN storage' :
             (k \notin DOMAIN storage \/ storage'[k] # storage[k])
             => \E r \in Slots :
                   /\ reqs'[r] # reqs[r]
                   /\ reqs'[r] # Idle
                   /\ reqs'[r].route # "health"
                   /\ k = <<reqs'[r].client,
                            RoutePath(reqs'[r].route, reqs'[r].arg),
                            RouteLimit(reqs'[r].route)>>
       /\ \A r \in Slots :
             (reqs'[r] # reqs[r] /\ reqs'[r] # Idle /\ reqs'[r].status = 429)
             => Entry(sent', <<reqs'[r].client, reqs'[r].route,
                                RouteLimit(reqs'[r].route)>>).count
                  > RouteLimit(reqs'[r].route)
       /\ \A r \in Slots :
             (reqs'[r] # Idle /\ reqs'[r].route = "health")
             => reqs'[r].status = 200]_vars

\* 10.0.0.1 has used up its quota on DELETE /products/1 and is refused there
\* while a delete of the same product from 10.0.0.2 is admitted
C25_Witness ==
    /\ IsDone(1, "delete_product") /\ reqs[1].status = 429
    /\ reqs[1].client = "10.0.0.1" /\ reqs[1].arg = 1
    /\ reqs[2] # Idle /\ reqs[2].route = "delete_product" /\ reqs[2].arg = 1
    /\ reqs[2].client = "10.0.0.2" /\ reqs[2].stage = "handler"
    /\ storage[LimitKey("10.0.0.2", "delete_product", 1)].count = 1
    /\ storage[LimitKey("10.0.0.1", "delete_product", 1)].count
          > RouteLimit("delete_product")

\* the requests of client c to DELETE /products/{1..n} that the limiter
\* admitted in the current window
RECURSIVE AdmittedDeletes(_, _)
AdmittedDeletes(c, n) ==
    IF n = 0 THEN 0
    ELSE LET e == Live(storage, LimitKey(c, "delete_product", n), now)
             N == RouteLimit("delete_product")
         IN  (IF e.count > N THEN N ELSE e.count) + AdmittedDeletes(c, n - 1)

\* C26: of the requests one client address sends to the delete route inside
\* one window, never more than the quota are admitted.
C26_NoExcessAdmission ==
    \A c \in Clients : AdmittedDeletes(c, 2) <= RouteLimit("delete_product")

\* C27: an elevate request whose caller's directory record lacks the admin
\* scope ends 403 and changes no record, and the role or the scopes of a
\* record change only by the write of an elevate request for it whose
\* caller's record held the admin scope.
C27_NoEscalation ==
    [][/\ \A r \in Slots :
             ( /\ Acts(r, "elevate", "find_user")
               /\ reqs'[r].found # NoneRec
               /\ ~InSeq("admin", reqs'[r].found.scopes) )
             => ( /\ reqs'[r].pc = "done"
                  /\ reqs'[r].status = 403
                  /\ users' = users )
       /\ \A i \in DOMAIN users \cap DOMAIN users' :
             (users'[i].role # users[i].role \/ users'[i].scopes # users[i].scopes)
             => \E r \in Slots :
                   /\ Acts(r, "elevate", "elevate_update")
                   /\ reqs[r].arg = i
                   /\ reqs[r].found # NoneRec
                   /\ InSeq("admin", reqs[r].found.scopes)]_vars

\* a caller of role user or guest asked for the elevation of another user,
\* was refused, and that user is no admin
C27_Witness ==
    \E r \in Slots :
        /\ IsDone(r, "elevate") /\ reqs[r].status = 403
        /\ reqs[r].found # NoneRec
        /\ reqs[r].found.role \in {"user", "guest"}
        /\ reqs[r].arg # reqs[r].found.id
        /\ reqs[r].arg \in DOMAIN users
        /\ users[reqs[r].arg].role # "admin"

\* C28: the token of a successful login carries the id, role and scopes of
\* the user's record as it is at that moment and an expiry of the issuance
\* time plus 30 minutes; the response reports expires_in = 1800 and the
\* token's user id, role and scopes.
C28_TokenSnapshot ==
    [][\A r \in Slots :
          (Acts(r, "login", "login_find") /\ reqs'[r].status = 200)
          => LET tok == reqs'[r].out.access_token
                 out == reqs'[r].out
                 u == reqs'[r].found
             IN  /\ u # NoneRec /\ u.id \in DOMAIN users
                 /\ tok.sub = u.id
                 /\ tok.role = users[u.id].role
                 /\ tok.scopes = users[u.id].scopes
                 /\ tok.exp * TicksPerSec = now + TokenLife
                 /\ out.expires_in = 1800
                 /\ out.user_id = tok.sub
                 /\ out.role = tok.role
                 /\ out.scopes = tok.scopes]_vars

\* C29: a login token presented unchanged on /me at a time t with
\* t0 <= t < t0 + 30 minutes, t0 the time of its issue, passes verification
\* and yields the issued subject.
C29_RoundTrip ==
    [][( /\ IsDone(1, "login") /\ reqs[1].status = 200
         /\ reqs[2] = Idle /\ reqs'[2] # Idle
         /\ reqs'[2].route = "me"
         /\ reqs'[2].cred = reqs[1].out.access_token
         /\ reqs[1].issued <= now
         /\ now < reqs[1].issued + TokenLife )
       => ( /\ reqs'[2].pc = "find_user"
            /\ reqs'[2].user_id = reqs[1].out.user_id )]_vars

\* C30: a request whose token's claims are not the ones that were signed is
\* answered 401 "Could not validate credentials" at verification, before
\* any directory lookup.
C30_TamperedRejected ==
    \A r \in Slots :
        ( /\ reqs[r] # Idle
          /\ reqs[r].cred # NoneRec
          /\ reqs[r].cred.signed # Payload(reqs[r].cred) )
        => ( /\ reqs[r].pc = "done"
             /\ reqs[r].status = 401
             /\ reqs[r].stage = "decode"
             /\ reqs[r].out = [detail |-> "Could not validate credentials"]
             /\ reqs[r].found = NoneRec )

\* the holder of an expired login token moved its expiry 30 minutes on and
\* was refused
C30_Witness ==
    /\ IsDone(1, "login") /\ reqs[1].status = 200
    /\ IsDone(2, "me") /\ reqs[2].status = 401
    /\ reqs[2].cred = [reqs[1].out.access_token EXCEPT
                          !.exp = @ + ACCESS_TOKEN_EXPIRE_MINUTES * 60]
    /\ reqs[1].out.access_token.exp * TicksPerSec <= now
    /\ now < reqs[2].cred.exp * TicksPerSec

\* C31: a request that arrives with a correctly signed, unexpired token
\* without a subject is answered 401 "Could not validate credentials" on
\* arrival, and no request with such a token ever holds a directory record.
C31_MissingSubject ==
    /\ [][\A r \in Slots :
             ( /\ reqs[r] = Idle /\ reqs'[r] # Idle
               /\ reqs'[r].cred # NoneRec
               /\ Verifies(reqs'[r].cred)
               /\ reqs'[r].cred.sub = NoSub
               /\ now < reqs'[r].cred.exp * TicksPerSec )
             => ( /\ reqs'[r].pc = "done"
                  /\ reqs'[r].status = 401
                  /\ reqs'[r].out = [detail |-> "Could not validate credentials"] )]_vars
    /\ [](\A r \in Slots :
             ( /\ reqs[r] # Idle
               /\ reqs[r].cred # NoneRec
               /\ reqs[r].cred.sub = NoSub )
             => ( /\ reqs[r].pc = "done"
                  /\ reqs[r].found = NoneRec
                  /\ reqs[r].current_user = NoneRec ))

\* a signed token without subject, not yet expired, was refused at the
\* decode stage
C31_Witness ==
    \E r \in Slots :
        /\ reqs[r] # Idle /\ reqs[r].pc = "done"
        /\ reqs[r].cred # NoneRec
        /\ Verifies(reqs[r].cred)
        /\ reqs[r].cred.sub = NoSub
        /\ reqs[r].status = 401
        /\ reqs[r].stage = "decode"
        /\ reqs[r].out = [detail |-> "Could not validate credentials"]
        /\ reqs[r].found = NoneRec

ScopeSet(u) == {u.scopes[i] : i \in 1..Len(u.scopes)}

\* C32: no step takes a scope away from a record that stays in the
\* directory, and a record whose role is admin keeps that role while it
\* stays.
C32_PrivilegesOnlyGrow ==
    [][\A i \in DOMAIN users \cap DOMAIN users' :
          /\ ScopeSet(users[i]) \subseteq ScopeSet(users'[i])
          /\ users[i].role = "admin" => users'[i].role = "admin"]_vars

\* user 2, who held fewer scopes when the server started, has been elevated
\* next to an admin who is still one
C32_Witness ==
    /\ {1, 2} \subseteq DOMAIN users
    /\ users[1].role = "admin"
    /\ users[2].role = "admin"
    /\ ScopeSet(users[2]) = {"read", "write", "delete", "admin"}
    /\ \E r \in Slots :
          /\ IsDone(r, "elevate") /\ reqs[r].arg = 2
          /\ reqs[r].status = 200

\* C33: an update that reports success (200 with the updated record) has
\* been applied to a product that was stored at the moment of its write.
C33_UpdateAtomic ==
    [][\A r \in Slots :
          ( /\ Acts(r, "update_product", "update_product")
            /\ reqs'[r].pc = "done"
            /\ reqs'[r].status = 200 )
          => ( /\ reqs[r].arg \in DOMAIN products
               /\ reqs[r].arg \in DOMAIN products'
               /\ products'[reqs[r].arg] = ProductDict(reqs'[r].out) )]_vars

\* C34: an elevate that reports success has set role admin and the full
\* scopes on a record that is in the directory at the moment of its write;
\* it never creates a record.
C34_ElevateAtomic ==
    [][/\ \A r \in Slots :
             ( /\ Acts(r, "elevate", "elevate_update")
               /\ reqs'[r].pc = "done"
               /\ reqs'[r].status = 200 )
             => ( /\ reqs[r].arg \in DOMAIN users
                  /\ reqs[r].arg \in DOMAIN users'
                  /\ users'[reqs[r].arg].role = "admin"
                  /\ users'[reqs[r].arg].scopes = FullScopes )
       /\ \A r \in Slots :
             Acts(r, "elevate", "elevate_update") => DOMAIN users' = DOMAIN users]_vars

\* C35: every request a client has sent to a rate-limited route in the
\* window has been counted against the quota of that client and route,
\* whatever its outcome: once no request is in flight, the limiter's count
\* is the number of requests sent.
C35_EveryRequestCounts ==
    \A call \in QuotaCalls :
        (reqs[1] = Idle \/ reqs[1].pc = "done")
        => Entry(storage, LimitKey("10.0.0.1", call.route, call.arg)).count
             = Entry(sent, <<"10.0.0.1", call.route, RouteLimit(call.route)>>).count

TerminalOutcomes == {200, 201, 204, 400, 401, 403, 404, 422, 429}

\* C36: every request eventually reaches a terminal outcome, which is a
\* success, 400, 401, 403, 404, 422 or 429.
C36_Terminates ==
    /\ \A r \in Slots : (reqs[r] # Idle) ~> (reqs[r] # Idle /\ reqs[r].pc = "done")
    /\ [](\A r \in Slots :
             (reqs[r] # Idle /\ reqs[r].pc = "done") => reqs[r].status \in TerminalOutcomes)

\* C37: every record of the directory has the role admin iff its scopes
\* contain admin, so the role check and the scope check for admin pass for
\* the same records.
C37_AdminRoleIffScope ==
    \A i \in DOMAIN users :
        /\ users[i].role = "admin" <=> InSeq("admin", users[i].scopes)
        /\ RequireRole("admin", users[i]) <=> RequireScope("admin", users[i])

\* user 2, no admin when the server started, has been elevated and listed
\* the users through the role gate
C37_Witness ==
    \E r \in Slots :
        /\ IsDone(r, "get_all_users") /\ reqs[r].status = 200
        /\ reqs[r].found # NoneRec /\ reqs[r].found.id = 2
        /\ reqs[r].found.role = "admin"
        /\ InSeq("admin", reqs[r].found.scopes)

\* C38: when the directory answers the lookup for a token whose claims say
\* a lesser role and no admin or delete scope, and the subject's record has
\* been elevated, the request passes the delete-scope, admin-scope and
\* admin-role gates with the record's privileges.
C38_ElevationReachesOldTokens ==
    [][\A r \in Slots :
          ( /\ reqs[r] # Idle
            /\ reqs[r].pc = "find_user"
            /\ reqs'[r] # reqs[r]
            /\ reqs[r].route \in {"delete_product", "elevate", "get_all_users", "delete_user"}
            /\ reqs[r].cred.role # "admin"
            /\ ~InSeq("admin", reqs[r].cred.scopes)
            /\ ~InSeq("delete", reqs[r].cred.scopes)
            /\ reqs[r].cred.sub \in DOMAIN users
            /\ users[reqs[r].cred.sub].role = "admin"
            /\ users[reqs[r].cred.sub].scopes = FullScopes )
          => ( /\ PastGate(reqs'[r])
               /\ reqs'[r].status \notin {401, 403}
               /\ reqs'[r].current_user.role = "admin"
               /\ reqs'[r].current_user.scopes = FullScopes )]_vars

\* user 2, elevated after the login that issued the token, elevated user 1
\* with that token
C38_Witness ==
    /\ IsDone(2, "elevate") /\ reqs[2].status = 200
    /\ reqs[2].cred = LoginToken(2, "user")
    /\ reqs[2].cred.role = "user"
    /\ reqs[2].cred.scopes = <<"read", "write">>
    /\ reqs[2].found # NoneRec /\ reqs[2].found.id = 2
    /\ reqs[2].found.role = "admin"

\* C39: the delete_one of an authorized delete_user(id) removes the record
\* with that id and nothing else, users or products, and answers 204; for an
\* id that is not in the directory it answers 404 and changes nothing; a
\* token whose subject has been deleted, the caller's own too, is answered
\* 401 at the lookup.
C39_DeleteUser ==
    [][\A r \in Slots :
          /\ Acts(r, "delete_user", "delete_user")
                => LET id == reqs[r].arg IN
                   /\ products' = products
                   /\ id \in DOMAIN users
                         => ( /\ DOMAIN users' = DOMAIN users \ {id}
                              /\ \A j \in DOMAIN users' : users'[j] = users[j]
                              /\ reqs'[r].pc = "done" /\ reqs'[r].status = 204 )
                   /\ id \notin DOMAIN users
                         => ( /\ users' = users
                              /\ reqs'[r].pc = "done" /\ reqs'[r].status = 404 )
          /\ ( /\ reqs[r] # Idle /\ reqs[r].pc = "find_user"
               /\ reqs'[r] # reqs[r]
               /\ reqs[r].cred.sub \notin DOMAIN users )
                => ( /\ reqs'[r].pc = "done" /\ reqs'[r].status = 401
                     /\ reqs'[r].out = [detail |-> "User not found"]
                     /\ users' = users /\ products' = products )]_vars

\* the admin created a product, deleted its own record and was then refused
\* on /me; the product and user 2 are still there
C39_Witness ==
    /\ IsDone(1, "me") /\ reqs[1].status = 401
    /\ reqs[1].out = [detail |-> "User not found"]
    /\ reqs[1].cred.sub = 1
    /\ 1 \notin DOMAIN users /\ 2 \in DOMAIN users
    /\ \E p \in DOMAIN products : products[p].created_by = 1

====
